---- MODULE Spec2Model ----
(***************************************************************************)
(* A model of the governed acquisition pipeline of DataGovIN Sentinel:     *)
(*   - DataGovINClient: the quota-limited transport (Bottleneck limiter)   *)
(*   - SearchDiscovery: paginated search and search by ids                 *)
(*   - DataAcquisition: acquireDataset / acquireResource / batchAcquire    *)
(*   - GovernanceLayer: validateDatasetAccess and its checks               *)
(* Each component has its own specification over its own variables; the   *)
(* variables of the other components keep their initial value.             *)
(***************************************************************************)
EXTENDS Integers, Sequences, FiniteSets, TLC

VARIABLES
    \* ---- DataGovINClient (transport)
    requestsPerHour,      \* config.requestsPerHour
    concurrentRequests,   \* config.concurrentRequests (limiter maxConcurrent)
    reservoir,            \* limiter reservoir: remaining budget of the window
    queue,                \* limiter queue of job ids, oldest first
    jobStatus,            \* job id -> "NONE" | "QUEUED" | "RUNNING" | "EXECUTING" | "DONE"
    jobKind,              \* job id -> "none" | "request" | "download"
    startAt,              \* job id -> time at which a RUNNING job starts executing
    nextRequest,          \* limiter: earliest time the next job may execute (minTime)
    now,                  \* time since the last reservoir refresh, in ticks
    stats,                \* this.stats
    submittedInWindow,    \* calls submitted since the last refresh
    admittedInWindow,     \* calls admitted since the last refresh
    \* ---- SearchDiscovery
    search,               \* the search(query, filters, maxResults) call in progress
    byIds,                \* the searchByIds(datasetIds) call in progress
    facets,               \* the last processFacets call: its argument and result
    \* ---- DataAcquisition
    acquire,              \* the batchAcquire / acquireDataset call in progress
    \* ---- GovernanceLayer
    respectLicenses, blockRestrictedData, enableAuditLog, piiDetection,
    auditLog, blockedDatasets, licenseWarnings,
    validation,           \* the last validateDatasetAccess call: its dataset and result
    resourceCheck,        \* the last validateResourceDownload call: its resource and result
    \* ---- actor main
    input,                \* the input of the run: the fields main reads from it
    run,                  \* the executeSearchMode / executeRetrieveMode run in progress
    \* ---- utils
    redaction,            \* redactPII applied to a text, and to its result
    backoff,              \* the last calculateBackoff call: its arguments and result
    \* ---- DataGovINClient (retries of one call)
    call                  \* a catalog call or download with its attempts

transportVars ==
    << requestsPerHour, concurrentRequests, reservoir, queue, jobStatus, jobKind,
       startAt, nextRequest, now, stats, submittedInWindow, admittedInWindow >>

discoveryVars == << search, byIds, facets >>

acquisitionVars == << acquire >>

governanceFlags == << respectLicenses, blockRestrictedData, enableAuditLog, piiDetection >>

governanceVars == << governanceFlags, auditLog, blockedDatasets, licenseWarnings, validation >>

utilVars == << redaction, backoff >>

vars ==
    << input, transportVars, discoveryVars, acquisitionVars, governanceVars, resourceCheck, run,
       utilVars, call >>

\* What the actions of a component leave alone: the other components
notTransport ==
    << input, discoveryVars, acquisitionVars, governanceVars, resourceCheck, run, utilVars, call >>
notDiscovery ==
    << input, transportVars, acquisitionVars, governanceVars, resourceCheck, run, utilVars, call >>
notAcquisition ==
    << input, transportVars, discoveryVars, governanceVars, resourceCheck, run, utilVars, call >>
notGovernance ==
    << input, transportVars, discoveryVars, acquisitionVars, resourceCheck, run, utilVars, call >>
notResourceCheck ==
    << input, transportVars, discoveryVars, acquisitionVars, governanceVars, run, utilVars, call >>
notRun == << input, transportVars, discoveryVars, acquisitionVars, resourceCheck, utilVars, call >>
notUtils ==
    << input, transportVars, discoveryVars, acquisitionVars, governanceVars, resourceCheck, run, call >>
notCall ==
    << input, transportVars, discoveryVars, acquisitionVars, governanceVars, resourceCheck, run,
       utilVars >>

Min(a, b) == IF a <= b THEN a ELSE b
Max(a, b) == IF a >= b THEN a ELSE b

(***************************************************************************)
(* Bounds of the model.                                                    *)
(***************************************************************************)
MaxJobs      == 3   \* calls submitted in one run
MaxRate      == 2   \* largest configured requestsPerHour
MaxConc      == 2   \* largest configured concurrentRequests
RefreshTicks == 4   \* reservoirRefreshInterval (one hour) measured in ticks

JobIds == 1..MaxJobs

(***************************************************************************)
(* DataGovINClient: constructor.                                           *)
(***************************************************************************)
\* minTime: Math.floor(3600000 / requestsPerHour), in ticks
minTime == RefreshTicks \div requestsPerHour

\* new DataGovINClient(config)
NewClient(config) ==
    /\ requestsPerHour = config.requestsPerHour
    /\ concurrentRequests = config.concurrentRequests
    /\ reservoir = requestsPerHour
    /\ queue = << >>
    /\ jobStatus = [j \in JobIds |-> "NONE"]
    /\ jobKind = [j \in JobIds |-> "none"]
    /\ startAt = [j \in JobIds |-> 0]
    /\ nextRequest = 0
    /\ now = 0
    /\ stats = [totalRequests |-> 0, successfulRequests |-> 0, failedRequests |-> 0]
    /\ submittedInWindow = 0
    /\ admittedInWindow = 0

TransportInit ==
    \E r \in 1..MaxRate, c \in 1..MaxConc :
        NewClient([requestsPerHour |-> r, concurrentRequests |-> c])

\* A client that is constructed and left alone
IdleClient == NewClient([requestsPerHour |-> 1, concurrentRequests |-> 1])

\* limiter.counts(): jobs holding a concurrency slot
RunningJobs == {j \in JobIds : jobStatus[j] \in {"RUNNING", "EXECUTING"}}

\* The limiter admits the head of the queue when a slot and budget are free: skips the cap
CanAdmitNoCap == queue # << >> /\ reservoir > 0

\* The limiter admits the head of the queue when a slot and budget are free: skips the budget
CanAdmitNoReservoir == queue # << >> /\ Cardinality(RunningJobs) < concurrentRequests

\* The limiter admits the head of the queue when a slot and budget are free
CanAdmit ==
    /\ queue # << >>
    /\ Cardinality(RunningJobs) < concurrentRequests
    /\ reservoir > 0

\* request(endpoint, params) / downloadResource(url, maxSize): limiter.schedule(job)
Submit(j, kind) ==
    /\ jobStatus[j] = "NONE"
    /\ \A i \in JobIds : i < j => jobStatus[i] # "NONE"
    /\ jobStatus' = [jobStatus EXCEPT ![j] = "QUEUED"]
    /\ jobKind' = [jobKind EXCEPT ![j] = kind]
    /\ queue' = Append(queue, j)
    /\ submittedInWindow' = submittedInWindow + 1
    /\ UNCHANGED << notTransport, requestsPerHour, concurrentRequests, reservoir, startAt,
                    nextRequest, now, stats, admittedInWindow >>

\* The limiter registers the newest queued job
AdmitNewest ==
    /\ CanAdmit
    /\ LET j == queue[Len(queue)]
           wait == Max(nextRequest - now, 0)
       IN  /\ queue' = SubSeq(queue, 1, Len(queue) - 1)
           /\ jobStatus' = [jobStatus EXCEPT ![j] = "RUNNING"]
           /\ reservoir' = reservoir - 1
           /\ startAt' = [startAt EXCEPT ![j] = now + wait]
           /\ nextRequest' = now + wait + minTime
           /\ admittedInWindow' = admittedInWindow + 1
    /\ UNCHANGED << notTransport, requestsPerHour, concurrentRequests, jobKind, now, stats,
                    submittedInWindow >>

\* The limiter registers the oldest queued job: one unit of budget, one slot,
\* and an execution time spaced minTime after the previous one
Admit ==
    /\ CanAdmit
    /\ LET j == Head(queue)
           wait == Max(nextRequest - now, 0)
       IN  /\ queue' = Tail(queue)
           /\ jobStatus' = [jobStatus EXCEPT ![j] = "RUNNING"]
           /\ reservoir' = reservoir - 1
           /\ startAt' = [startAt EXCEPT ![j] = now + wait]
           /\ nextRequest' = now + wait + minTime
           /\ admittedInWindow' = admittedInWindow + 1
    /\ UNCHANGED << notTransport, requestsPerHour, concurrentRequests, jobKind, now, stats,
                    submittedInWindow >>

\* The job body starts: a call issued without waiting for the limiter's admission
StartUnadmitted(j) ==
    /\ jobStatus[j] \in {"QUEUED", "RUNNING"}
    /\ startAt[j] <= now
    /\ jobStatus' = [jobStatus EXCEPT ![j] = "EXECUTING"]
    /\ stats' = [stats EXCEPT !.totalRequests = @ + 1]
    /\ UNCHANGED << notTransport, requestsPerHour, concurrentRequests, reservoir, queue, jobKind,
                    startAt, nextRequest, now, submittedInWindow,
                    admittedInWindow >>

\* The job body starts: this.stats.totalRequests++
Start(j) ==
    /\ jobStatus[j] = "RUNNING"
    /\ startAt[j] <= now
    /\ jobStatus' = [jobStatus EXCEPT ![j] = "EXECUTING"]
    /\ stats' = [stats EXCEPT !.totalRequests = @ + 1]
    /\ UNCHANGED << notTransport, requestsPerHour, concurrentRequests, reservoir, queue, jobKind,
                    startAt, nextRequest, now, submittedInWindow,
                    admittedInWindow >>

\* What the remote call of a job can come to: a response (whose payload may report
\* success === false, for a catalog request) or an error
Outcomes(kind) ==
    IF kind = "request" THEN {"ok", "unsuccessful", "error"} ELSE {"ok", "error"}

\* The job body ends, for a catalog request only: the job of a download never settles
CompleteRequestsOnly(j, outcome) ==
    /\ jobStatus[j] = "EXECUTING"
    /\ jobKind[j] = "request"
    /\ outcome \in Outcomes(jobKind[j])
    /\ jobStatus' = [jobStatus EXCEPT ![j] = "DONE"]
    /\ startAt' = [startAt EXCEPT ![j] = 0]
    /\ stats' = [stats EXCEPT
                   !.successfulRequests = IF outcome \in {"ok", "unsuccessful"} THEN @ + 1 ELSE @,
                   !.failedRequests = IF outcome \in {"unsuccessful", "error"} THEN @ + 1 ELSE @]
    /\ UNCHANGED << notTransport, requestsPerHour, concurrentRequests, reservoir, queue, jobKind,
                    nextRequest, now, submittedInWindow, admittedInWindow >>

\* The job body ends: the counters are updated and the slot is released
Complete(j, outcome) ==
    /\ jobStatus[j] = "EXECUTING"
    /\ outcome \in Outcomes(jobKind[j])
    /\ jobStatus' = [jobStatus EXCEPT ![j] = "DONE"]
    /\ startAt' = [startAt EXCEPT ![j] = 0]
    /\ stats' = [stats EXCEPT
                   !.successfulRequests = IF outcome \in {"ok", "unsuccessful"} THEN @ + 1 ELSE @,
                   !.failedRequests = IF outcome \in {"unsuccessful", "error"} THEN @ + 1 ELSE @]
    /\ UNCHANGED << notTransport, requestsPerHour, concurrentRequests, reservoir, queue, jobKind,
                    nextRequest, now, submittedInWindow, admittedInWindow >>

\* Time passes; the limiter's admissions and timers are never late
Tick ==
    /\ now < RefreshTicks
    /\ ~CanAdmit
    /\ \A j \in JobIds : jobStatus[j] = "RUNNING" => startAt[j] > now
    /\ now' = now + 1
    /\ UNCHANGED << notTransport, requestsPerHour, concurrentRequests, reservoir, queue, jobStatus,
                    jobKind, startAt, nextRequest, stats, submittedInWindow,
                    admittedInWindow >>

\* reservoirRefreshInterval elapsed: the refresh amount is added to what is left
RefillCarryOver ==
    /\ now = RefreshTicks
    /\ reservoir' = reservoir + requestsPerHour
    /\ now' = 0
    /\ nextRequest' = Max(nextRequest - RefreshTicks, 0)
    /\ startAt' = [j \in JobIds |-> Max(startAt[j] - RefreshTicks, 0)]
    /\ submittedInWindow' = 0
    /\ admittedInWindow' = 0
    /\ UNCHANGED << notTransport, requestsPerHour, concurrentRequests, queue, jobStatus, jobKind,
                    stats >>

\* reservoirRefreshInterval elapsed: the reservoir is set to reservoirRefreshAmount
Refill ==
    /\ now = RefreshTicks
    /\ reservoir' = requestsPerHour
    /\ now' = 0
    /\ nextRequest' = Max(nextRequest - RefreshTicks, 0)
    /\ startAt' = [j \in JobIds |-> Max(startAt[j] - RefreshTicks, 0)]
    /\ submittedInWindow' = 0
    /\ admittedInWindow' = 0
    /\ UNCHANGED << notTransport, requestsPerHour, concurrentRequests, queue, jobStatus, jobKind,
                    stats >>

\* The client's operations that reach the network
ClientOperations ==
    {"packageSearch", "packageShow", "resourceShow", "organizationList", "groupList", "tagList",
     "testConnection", "downloadResource"}

\* The job each operation hands to the limiter: every catalog operation returns
\* this.request(...), testConnection awaits packageSearch, downloadResource schedules
\* its own job
scheduledJob(operation) ==
    IF operation = "downloadResource" THEN "download" ELSE "request"

TransportNext ==
    \/ \E j \in JobIds, operation \in ClientOperations : Submit(j, scheduledJob(operation))
    \/ Admit
    \/ \E j \in JobIds : Start(j)
    \/ \E j \in JobIds, outcome \in {"ok", "unsuccessful", "error"} : Complete(j, outcome)
    \/ Tick
    \/ Refill

(***************************************************************************)
(* The remote catalog: packages as package_search / package_show return    *)
(* them. A text is a sequence of words; a score is in tenths.              *)
(***************************************************************************)
MaxIds     == 2   \* dataset ids in one searchByIds / batchAcquire call
MaxResults == 3   \* largest maxResults of a search call
MaxPages   == 3   \* page requests the remote answers in one search call
MaxTotal   == 3   \* largest total (count) the remote declares
batchSize  == 2   \* rows per page request (100 in the source), scaled
facetLimit == 2   \* entries kept per facet field (20 in the source), scaled
MaxItems   == 3   \* items of a facet field in a response
MaxCount   == 2   \* largest count of a facet item
DescriptionLimit == 2   \* description length kept by formatDatasetMetadata (500), scaled

\* relevanceThreshold: config.relevanceThreshold || 0.5, in tenths
relevanceThreshold == 5

NoScore == -1
Scores == {NoScore, 0, 3, 5}
DatasetIds == {"ds-a", "ds-b"}
IdSeqs == UNION {[1..n -> DatasetIds] : n \in 0..MaxIds}

Package(id, score, notes, license) ==
    [id |-> id, title |-> << "survey" >>, notes |-> notes, organization |-> "ministry",
     tags |-> << >>, license_title |-> license, num_resources |-> 1, score |-> score]

SearchPackages ==
    {Package("ds-a", sc, << "district", "health", "data" >>, "CC-BY 4.0") : sc \in Scores}

ShowPackages(id) ==
    {Package(id, NoScore, notes, lic) :
        notes \in {<< "health" >>, << "district", "health", "data" >>},
        lic \in {"", "CC-BY 4.0"}}

\* truncateText(text, maxLength)
truncateText(text, maxLength) ==
    IF Len(text) <= maxLength THEN text ELSE SubSeq(text, 1, maxLength) \o << "..." >>

\* formatDatasetMetadata(dataset): the fields the pipeline reads afterwards
formatDatasetMetadata(dataset) ==
    [id |-> dataset.id,
     title |-> dataset.title,
     description |-> truncateText(dataset.notes, DescriptionLimit),
     organization |-> dataset.organization,
     tags |-> dataset.tags,
     license |-> IF dataset.license_title # "" THEN dataset.license_title ELSE "Not specified",
     resourceCount |-> dataset.num_resources]

\* The fields of a formatted descriptor that come from the remote descriptor
DescriptorFields ==
    {"title", "description", "organization", "tags", "license", "resourceCount", "resources"}

(***************************************************************************)
(* SearchDiscovery.search(query, filters, maxResults)                      *)
(***************************************************************************)
SearchIdle ==
    [pc |-> "idle", maxResults |-> 0, results |-> << >>, start |-> 0, totalFound |-> 0,
     pages |-> 0, requests |-> << >>, failed |-> FALSE, ret |-> [success |-> FALSE]]

\* const score = dataset.score || 1.0 (an absent score and a score of 0 are falsy)
ScoreOf(dataset) == IF dataset.score = NoScore \/ dataset.score = 0 THEN 10 ELSE dataset.score

\* the relevance filter of a page: score >= this.relevanceThreshold
IsRelevant(dataset) == ScoreOf(dataset) >= relevanceThreshold

\* What the remote can answer to a page request of `rows` rows
PageResponses(rows) ==
    {[count |-> c, results |-> r] :
        c \in 0..MaxTotal,
        r \in UNION {[1..n -> SearchPackages] : n \in 0..rows}}

\* results.slice(0, maxResults).map(...): the formatted results
formattedResults(results, maxResults) ==
    [i \in 1..Min(Len(results), maxResults) |->
        [id |-> results[i].id,
         descriptor |-> formatDatasetMetadata(results[i]),
         relevanceScore |-> ScoreOf(results[i])]]

\* `const searchResult` is declared inside the block of the while loop (line 50);
\* the return expression (line 99) reads searchResult outside that block
searchResultInScope == FALSE

\* start += rows that steps by one item
advanceByOne(start, rows) == start + 1

\* start += rows
advance(start, rows) == start + rows

\* search is called
SearchCall(maxResults) ==
    /\ search.pc = "idle" /\ byIds.pc = "idle"
    /\ search' = [SearchIdle EXCEPT !.pc = "loop", !.maxResults = maxResults]
    /\ UNCHANGED << byIds, facets, notDiscovery >>

\* One turn of the while loop: a page is requested and answered
SearchPage(resp) ==
    /\ search.pc = "loop"
    /\ Len(search.results) < search.maxResults
    /\ search.pages < MaxPages
    /\ LET rows == Min(batchSize, search.maxResults - Len(search.results))
           relevantResults == SelectSeq(resp.results, IsRelevant)
           results == search.results \o relevantResults
       IN  /\ resp \in PageResponses(rows)
           /\ search' = [search EXCEPT
                  !.pages = @ + 1,
                  !.requests = Append(@, [rows |-> rows, start |-> search.start]),
                  !.totalFound = resp.count,
                  !.results = IF Len(resp.results) = 0 THEN @ ELSE results,
                  !.start = IF \/ Len(resp.results) = 0
                               \/ Len(resp.results) < rows
                               \/ Len(results) >= resp.count
                            THEN @ ELSE advance(@, rows),
                  !.pc = IF \/ Len(resp.results) = 0
                            \/ Len(resp.results) < rows
                            \/ Len(results) >= resp.count
                         THEN "return" ELSE "loop"]
    /\ UNCHANGED << byIds, facets, notDiscovery >>

\* One turn of the while loop: the page request throws; the catch returns the failure
SearchPageFails ==
    /\ search.pc = "loop"
    /\ Len(search.results) < search.maxResults
    /\ search.pages < MaxPages
    /\ search' = [search EXCEPT
               !.pages = @ + 1,
               !.requests = Append(@, [rows |-> Min(batchSize, search.maxResults - Len(search.results)),
                                       start |-> search.start]),
               !.failed = TRUE,
               !.pc = "done",
               !.ret = [success |-> FALSE, error |-> "request failed", results |-> << >>,
                        count |-> 0]]
    /\ UNCHANGED << byIds, facets, notDiscovery >>

\* The loop condition results.length < maxResults is false
SearchLoopExit ==
    /\ search.pc = "loop"
    /\ Len(search.results) >= search.maxResults
    /\ search' = [search EXCEPT !.pc = "return"]
    /\ UNCHANGED << byIds, facets, notDiscovery >>

\* The results are formatted and the return value is built; reading a name that
\* is not in scope throws a ReferenceError, which the catch turns into a failure
SearchReturn ==
    /\ search.pc = "return"
    /\ LET formatted == formattedResults(search.results, search.maxResults)
       IN  search' = [search EXCEPT
               !.pc = "done",
               !.ret = IF searchResultInScope
                       THEN [success |-> TRUE, results |-> formatted,
                             count |-> Len(formatted), totalAvailable |-> search.totalFound]
                       ELSE [success |-> FALSE, error |-> "searchResult is not defined",
                             results |-> << >>, count |-> 0]]
    /\ UNCHANGED << byIds, facets, notDiscovery >>

\* The caller takes the result; the next call can start
SearchDone ==
    /\ search.pc = "done"
    /\ search' = SearchIdle
    /\ UNCHANGED << byIds, facets, notDiscovery >>

(***************************************************************************)
(* SearchDiscovery.searchByIds(datasetIds)                                 *)
(***************************************************************************)
ByIdsIdle == [pc |-> "idle", ids |-> << >>, i |-> 1, results |-> << >>, fetches |-> << >>]

\* What packageShow(id) can come to: a descriptor, a null result, or an error
ShowOutcomes(id) ==
    {[kind |-> "found", package |-> p] : p \in ShowPackages(id)}
        \cup {[kind |-> "null"], [kind |-> "error"]}

\* the record pushed for an id: drops the record of an id whose fetch failed
ByIdRecordSkipFailed(id, outcome) ==
    IF outcome.kind # "found"
    THEN << >>
    ELSE << formatDatasetMetadata(outcome.package) @@ [resources |-> << >>] >>

\* the record pushed for an id: the formatted descriptor, or, in the catch, the
\* error record (formatDatasetMetadata of a null result throws as well)
ByIdRecord(id, outcome) ==
    IF outcome.kind # "found"
    THEN << [id |-> id, error |-> "Failed to fetch dataset", success |-> FALSE] >>
    ELSE << formatDatasetMetadata(outcome.package) @@ [resources |-> << >>] >>

\* searchByIds is called
ByIdsCall(ids) ==
    /\ byIds.pc = "idle" /\ search.pc = "idle"
    /\ byIds' = [ByIdsIdle EXCEPT !.pc = IF Len(ids) = 0 THEN "done" ELSE "loop", !.ids = ids]
    /\ UNCHANGED << search, facets, notDiscovery >>

\* One turn of the for loop: the id is fetched and its record pushed
ByIdsFetch(outcome) ==
    /\ byIds.pc = "loop"
    /\ LET id == byIds.ids[byIds.i]
       IN  /\ outcome \in ShowOutcomes(id)
           /\ byIds' = [byIds EXCEPT
                  !.results = @ \o ByIdRecord(id, outcome),
                  !.fetches = Append(@, IF outcome.kind # "found" THEN "failed" ELSE "ok"),
                  !.i = @ + 1,
                  !.pc = IF byIds.i = Len(byIds.ids) THEN "done" ELSE "loop"]
    /\ UNCHANGED << search, facets, notDiscovery >>

\* The caller takes the result; the next call can start
ByIdsDone ==
    /\ byIds.pc = "done"
    /\ byIds' = ByIdsIdle
    /\ UNCHANGED << search, facets, notDiscovery >>

(***************************************************************************)
(* SearchDiscovery.processFacets(facets), formatFacetItems(facetData)      *)
(***************************************************************************)
FacetsIdle == [called |-> FALSE]

\* The items of a facet of the response: each has its own name, counts can be equal
FacetNames == << "a", "b", "c", "d", "e", "f" >>
FacetItems ==
    UNION {{[k \in 1..n |-> [name |-> FacetNames[k], count |-> counts[k], display_name |-> "x"]] :
               counts \in [1..n -> 0..MaxCount]} : n \in 0..MaxItems}

\* The facet data of a field: with items, or without the items property
FacetData == {[items |-> items] : items \in FacetItems} \cup {[title |-> "field"]}

\* The facet data of the groups field in the responses
GroupsData ==
    {[title |-> "field"], [items |-> << >>],
     [items |-> << [name |-> "a", count |-> 1, display_name |-> "x"],
                   [name |-> "b", count |-> 2, display_name |-> "x"] >>]}

\* The facets objects of the responses: a field is present or not
RawFacets ==
    {[organization |-> o] : o \in FacetData}
        \cup {[organization |-> o, groups |-> g] : o \in FacetData, g \in GroupsData}
        \cup {[groups |-> g] : g \in GroupsData}
        \cup {[tags |-> [items |-> << >>], res_format |-> [title |-> "field"]]}

\* items.sort((a, b) => b.count - a.count): by descending count; the sort of the
\* engine is stable, an item goes after the items of the same count before it
RECURSIVE sortByCount(_)
sortByCount(items) ==
    IF items = << >> THEN << >>
    ELSE LET before == sortByCount(SubSeq(items, 1, Len(items) - 1))
             item == items[Len(items)]
             ahead == Cardinality({k \in 1..Len(before) : before[k].count >= item.count})
         IN  SubSeq(before, 1, ahead) \o << item >> \o SubSeq(before, ahead + 1, Len(before))

\* formatFacetItems that keeps the order of the response
formatFacetItemsUnsorted(facetData) ==
    IF "items" \notin DOMAIN facetData THEN << >>
    ELSE [k \in 1..Min(Len(facetData.items), facetLimit) |->
             [name |-> facetData.items[k].name, count |-> facetData.items[k].count]]

\* formatFacetItems(facetData): sort, slice(0, 20), map to { name, count }
formatFacetItems(facetData) ==
    IF "items" \notin DOMAIN facetData THEN << >>
    ELSE LET sorted == sortByCount(facetData.items)
         IN  [k \in 1..Min(Len(sorted), facetLimit) |->
                 [name |-> sorted[k].name, count |-> sorted[k].count]]

\* the key of the processed facets for a field of the response
processedKey(field) ==
    CASE field = "organization" -> "organizations"
      [] field = "groups" -> "sectors"
      [] field = "tags" -> "tags"
      [] field = "res_format" -> "formats"

\* processFacets(facets): the four fields, each under its key when it is present
processFacets(raw) ==
    [key \in {processedKey(field) : field \in DOMAIN raw} |->
        formatFacetItems(raw[CHOOSE field \in DOMAIN raw : processedKey(field) = key])]

\* processFacets is called
ProcessFacets(raw) ==
    /\ facets' = [called |-> TRUE, raw |-> raw, processed |-> processFacets(raw)]
    /\ UNCHANGED << search, byIds, notDiscovery >>

FacetsNext == \E raw \in RawFacets : ProcessFacets(raw)

DiscoveryInit == search = SearchIdle /\ byIds = ByIdsIdle /\ facets = FacetsIdle

DiscoveryNext ==
    \/ \E m \in 0..MaxResults : SearchCall(m)
    \/ \E resp \in PageResponses(batchSize) : SearchPage(resp)
    \/ SearchPageFails
    \/ SearchLoopExit
    \/ SearchReturn
    \/ SearchDone
    \/ \E ids \in IdSeqs : ByIdsCall(ids)
    \/ \E id \in DatasetIds : \E outcome \in ShowOutcomes(id) : ByIdsFetch(outcome)
    \/ ByIdsDone

(***************************************************************************)
(* DataAcquisition                                                         *)
(***************************************************************************)
\* attachments of one descriptor
MaxResources == 2

\* this.maxFileSize: the configured cap, in units of declared size
maxFileSize == 2

\* this.resourceLimit: config.resourceLimit || 3
resourceLimit == 3

supportedFormats == {"csv", "json", "xml", "xls", "xlsx", "txt", "tsv"}

\* (resource.format || '').toLowerCase()
toLowerCase(format) ==
    CASE format = "CSV" -> "csv"
      [] format = "PDF" -> "pdf"
      [] OTHER -> format

\* An option that the caller leaves out
Absent == -1

\* a || b: the default replaces an absent value and a 0
OrDefault(a, b) == IF a = Absent \/ a = 0 THEN b ELSE a

\* Declared sizes: none (0), under every cap, at the configured cap, above it
DeclaredSizes == {0, 1, maxFileSize, maxFileSize + 1}

\* The attachments a descriptor can declare; url "" is a missing url
Resources ==
    [format : {"CSV", "pdf"}, size : DeclaredSizes, url : {"", "https://host/file"}]

\* The options of a call: resourceLimit, includeData, maxFileSize
AcquireOptions ==
    [resourceLimit : {Absent} \cup 0..MaxResources,
     includeData : BOOLEAN,
     maxFileSize : {Absent, 1}]

\* What the remote does when the bytes of an attachment are asked for and decoded
RemoteBehaviours == {"ok", "downloadFails", "decodeFails"}

\* The outcome record of an attachment: its metadata (by its position in the
\* descriptor), acquired, and the reason, error or data it carries
Outcome(id, acquired, reason, error, data) ==
    [id |-> id, acquired |-> acquired, reason |-> reason, error |-> error, data |-> data]

\* acquireResource(resource, options): the outcome, and whether downloadResource
\* was called. A decode failure is caught inside parseResourceData, which returns
\* {parsed: false, error}: the outcome keeps acquired: true
acquireResource(id, resource, options, remote) ==
    LET format == toLowerCase(resource.format)
    IN  IF format \notin supportedFormats
        THEN [outcome |-> Outcome(id, FALSE, "format not supported", "none", "none"),
              download |-> FALSE]
        ELSE IF resource.size # 0 /\ resource.size > maxFileSize
        THEN [outcome |-> Outcome(id, FALSE, "size exceeds limit", "none", "none"),
              download |-> FALSE]
        ELSE IF options.includeData /\ resource.url # ""
        THEN IF remote = "downloadFails"
             THEN [outcome |-> Outcome(id, FALSE, "none", "download failed", "none"),
                   download |-> TRUE]
             ELSE [outcome |-> Outcome(id, TRUE, "none", "none",
                                       IF remote = "decodeFails" THEN "unparsed" ELSE "parsed"),
                   download |-> TRUE]
        ELSE [outcome |-> Outcome(id, FALSE, "not requested", "none", "none"),
              download |-> FALSE]

\* The options acquireDataset passes to acquireResource
resourceOptions(options) ==
    [includeData |-> options.includeData # FALSE,
     maxFileSize |-> OrDefault(options.maxFileSize, maxFileSize)]

\* const limit = Math.min(options.resourceLimit || this.resourceLimit, resources.length)
limitOf(options, n) == Min(OrDefault(options.resourceLimit, resourceLimit), n)

\* A result of acquireDataset as batchAcquire keeps it: the resources list of a
\* result is kept by its length (resourceCount); the outcomes themselves are in
\* acquire.processed while their dataset is the current one

\* the value acquireDataset returns from its catch: reports a success
acquireFailureAsSuccess(datasetId) ==
    [success |-> TRUE, datasetId |-> datasetId, error |-> "none", resourceCount |-> 0]

\* the value acquireDataset returns from its catch (resources: [])
acquireFailure(datasetId) ==
    [success |-> FALSE, datasetId |-> datasetId, error |-> "not fetched", resourceCount |-> 0]

\* the value acquireDataset returns after the loop
acquireSuccess(datasetId, processedResources) ==
    [success |-> TRUE, datasetId |-> datasetId, error |-> "none",
     resourceCount |-> Len(processedResources)]

\* The id lists of a call: n ids, in a fixed order
BatchIds(n) == [i \in 1..n |-> IF i % 2 = 1 THEN "ds-a" ELSE "ds-b"]

AcquireIdle ==
    [pc |-> "idle", ids |-> << >>, k |-> 1, options |-> << >>, n |-> 0, limit |-> 0,
     resource |-> << >>, processed |-> << >>, shows |-> << >>, downloads |-> {},
     results |-> << >>]

\* where the for loop of batchAcquire goes after the dataset at position k
afterDataset(k, ids) == IF k = Len(ids) THEN "done" ELSE "show"

\* batchAcquire(datasetIds, options) is called (acquireDataset alone: one id)
BatchAcquire(ids, options) ==
    /\ acquire.pc = "idle"
    /\ acquire' = [AcquireIdle EXCEPT
           !.pc = IF Len(ids) = 0 THEN "done" ELSE "show",
           !.ids = ids,
           !.options = options]
    /\ UNCHANGED notAcquisition

\* acquireDataset: packageShow fails or returns nothing; the catch returns the failure
PackageShowFails ==
    /\ acquire.pc = "show"
    /\ acquire' = [acquire EXCEPT
           !.shows = Append(@, "failed"),
           !.n = 0,
           !.limit = 0,
           !.resource = << >>,
           !.processed = << >>,
           !.downloads = {},
           !.results = Append(@, acquireFailure(acquire.ids[acquire.k])),
           !.k = @ + 1,
           !.pc = afterDataset(acquire.k, acquire.ids)]
    /\ UNCHANGED notAcquisition

\* acquireDataset: packageShow returns a descriptor with n attachments
PackageShow(n) ==
    /\ acquire.pc = "show"
    /\ LET limit == limitOf(acquire.options, n)
       IN  acquire' = [acquire EXCEPT
               !.shows = Append(@, "found"),
               !.n = n,
               !.limit = limit,
               !.resource = << >>,
               !.processed = << >>,
               !.downloads = {},
               !.results = IF limit > 0 THEN @
                           ELSE Append(@, acquireSuccess(acquire.ids[acquire.k], << >>)),
               !.k = IF limit > 0 THEN @ ELSE @ + 1,
               !.pc = IF limit > 0 THEN "loop" ELSE afterDataset(acquire.k, acquire.ids)]
    /\ UNCHANGED notAcquisition

\* One turn of the resource loop: the next declared attachment is acquired
AcquireResource(resource, remote) ==
    /\ acquire.pc = "loop"
    /\ LET id == Len(acquire.processed) + 1
           got == acquireResource(id, resource, resourceOptions(acquire.options), remote)
           processed == Append(acquire.processed, got.outcome)
           last == id = acquire.limit
       IN  acquire' = [acquire EXCEPT
               !.resource = resource,
               !.processed = processed,
               !.downloads = IF got.download THEN @ \cup {id} ELSE @,
               !.results = IF last
                           THEN Append(@, acquireSuccess(acquire.ids[acquire.k], processed))
                           ELSE @,
               !.k = IF last THEN @ + 1 ELSE @,
               !.pc = IF last THEN afterDataset(acquire.k, acquire.ids) ELSE "loop"]
    /\ UNCHANGED notAcquisition

\* The caller takes the results; the next call can start
AcquireDone ==
    /\ acquire.pc = "done"
    /\ acquire' = AcquireIdle
    /\ UNCHANGED notAcquisition

AcquisitionInit == acquire = AcquireIdle

AcquisitionNext ==
    \/ \E n \in 0..MaxIds, options \in AcquireOptions : BatchAcquire(BatchIds(n), options)
    \/ PackageShowFails
    \/ \E n \in 0..MaxResources : PackageShow(n)
    \/ \E resource \in Resources, remote \in RemoteBehaviours : AcquireResource(resource, remote)
    \/ AcquireDone

(***************************************************************************)
(* GovernanceLayer                                                         *)
(***************************************************************************)
\* entries the audit log keeps (1000), scaled
AuditCapacity == 2

\* new GovernanceLayer(config): a flag is on unless the config sets it to false
NewGovernance(config) ==
    /\ respectLicenses = (config.respectLicenses # FALSE)
    /\ blockRestrictedData = (config.blockRestrictedData # FALSE)
    /\ enableAuditLog = (config.enableAuditLog # FALSE)
    /\ piiDetection = (config.piiDetection # FALSE)
    /\ auditLog = << >>
    /\ blockedDatasets = {}
    /\ licenseWarnings = {}
    /\ validation = [called |-> FALSE]

GovernanceConfigs ==
    [respectLicenses : BOOLEAN, blockRestrictedData : BOOLEAN,
     enableAuditLog : BOOLEAN, piiDetection : BOOLEAN]

GovernanceInit == \E config \in GovernanceConfigs : NewGovernance(config)

IdleGovernance ==
    NewGovernance([respectLicenses |-> TRUE, blockRestrictedData |-> TRUE,
                   enableAuditLog |-> TRUE, piiDetection |-> TRUE])

\* The items validateDatasetAccess is given: title, description and tags are
\* texts, kept as their words
GovernedDatasets ==
    [id : DatasetIds,
     title : {<< "survey" >>},
     description : {<< "health", "data" >>, << "Confidential", "records" >>,
                    << "unrestricted", "confidential" >>, << "secretariat" >>,
                    << "contact", "a@b.c" >>},
     tags : {<< >>, << "internal-use" >>},
     license : {[license_title |-> "", license_id |-> ""],
                [license_title |-> "Not specified", license_id |-> ""],
                [license_title |-> "CC-BY 4.0", license_id |-> ""],
                [license_title |-> "", license_id |-> "proprietary"]}]

\* String.prototype.toLowerCase on the words and licenses of the model
lowerCase(word) ==
    CASE word = "Confidential" -> "confidential"
      [] word = "Not specified" -> "not specified"
      [] word = "CC-BY 4.0" -> "cc-by 4.0"
      [] OTHER -> word

\* word.includes(part): part is a substring of the (lower-case) word
includes(word, part) ==
    \/ word = part
    \/ word = "unrestricted" /\ part = "restricted"
    \/ word = "secretariat" /\ part = "secret"
    \/ word = "cc-by 4.0" /\ part = "cc-by"

\* the keyword list without 'confidential'
restrictedKeywordsNoConfidential ==
    << "internal-use", "restricted", "classified", "private", "sensitive", "secret" >>

\* const restrictedKeywords = [...]
restrictedKeywords ==
    << "internal-use", "restricted", "confidential", "classified", "private", "sensitive",
       "secret" >>

\* [title, description, tags].join(' ').toLowerCase(), as its words (no keyword
\* holds a space, so a keyword is in the text iff it is in one of the words)
datasetText(dataset) ==
    LET words == dataset.title \o dataset.description \o dataset.tags
    IN  [i \in 1..Len(words) |-> lowerCase(words[i])]

\* datasetText.includes(keyword)
textIncludes(text, keyword) == \E i \in 1..Len(text) : includes(text[i], keyword)

\* restrictedKeywords.find(keyword => datasetText.includes(keyword)); "" if none
foundRestriction(dataset) ==
    LET text == datasetText(dataset)
        hits == {i \in 1..Len(restrictedKeywords) : textIncludes(text, restrictedKeywords[i])}
    IN  IF hits = {} THEN ""
        ELSE restrictedKeywords[CHOOSE i \in hits : \A j \in hits : i <= j]

\* checkRestrictions(dataset): its result
checkRestrictions(dataset) ==
    LET found == foundRestriction(dataset)
    IN  IF found # ""
        THEN [allowed |-> FALSE, reason |-> "restricted content", keyword |-> found]
        ELSE [allowed |-> TRUE, reason |-> "No restrictions found", keyword |-> ""]

openLicenses ==
    << "cc-by", "cc-by-4.0", "creative commons attribution", "cc0", "public domain",
       "odc-by", "odbl", "open government license" >>

NoLicenseWarning == "No license specified. Use with caution. Attribution recommended."

RestrictionsWarning == "License may have restrictions. Review terms before use."

\* checkLicense that lets a missing license pass without a warning
checkLicenseNoWarning(dataset) ==
    LET license == IF dataset.license.license_title # "" THEN dataset.license.license_title
                   ELSE dataset.license.license_id
        isOpenLicense == \E i \in 1..Len(openLicenses) : includes(lowerCase(license), openLicenses[i])
    IN  IF license = "" \/ lowerCase(license) = "not specified"
        THEN [restrictive |-> FALSE, warning |-> ""]
        ELSE IF ~isOpenLicense
        THEN [restrictive |-> TRUE, warning |-> RestrictionsWarning]
        ELSE [restrictive |-> FALSE, warning |-> ""]

\* checkLicense(dataset): its result
checkLicense(dataset) ==
    LET license == IF dataset.license.license_title # "" THEN dataset.license.license_title
                   ELSE dataset.license.license_id
        isOpenLicense == \E i \in 1..Len(openLicenses) : includes(lowerCase(license), openLicenses[i])
    IN  IF license = "" \/ lowerCase(license) = "not specified"
        THEN [restrictive |-> TRUE, warning |-> NoLicenseWarning]
        ELSE IF ~isOpenLicense
        THEN [restrictive |-> TRUE, warning |-> RestrictionsWarning]
        ELSE [restrictive |-> FALSE, warning |-> ""]

\* this.auditLog.push(logEntry) with nothing dropped
pushAuditUnbounded(log, entry) == Append(log, entry)

\* this.auditLog.push(logEntry), then shift() when over capacity
pushAudit(log, entry) ==
    LET pushed == Append(log, entry)
    IN  IF Len(pushed) > AuditCapacity THEN Tail(pushed) ELSE pushed

\* the entry of logAccess with allowed: true whatever the verdict
logEntryAllowed(dataset, validationResult) ==
    [datasetId |-> dataset.id,
     datasetTitle |-> dataset.title,
     action |-> "ACCESS_ATTEMPT",
     allowed |-> TRUE,
     warnings |-> validationResult.warnings,
     errors |-> validationResult.errors,
     compliance |-> validationResult.compliance]

\* const logEntry = {...} of logAccess (the timestamp is left out)
logEntry(dataset, validationResult) ==
    [datasetId |-> dataset.id,
     datasetTitle |-> dataset.title,
     action |-> "ACCESS_ATTEMPT",
     allowed |-> validationResult.allowed,
     warnings |-> validationResult.warnings,
     errors |-> validationResult.errors,
     compliance |-> validationResult.compliance]

\* logAccess(dataset, validationResult): the audit log after the call
logAccess(dataset, validationResult) ==
    IF enableAuditLog THEN pushAudit(auditLog, logEntry(dataset, validationResult))
    ELSE auditLog

\* the verdict when a refusal returns before the license check
verdictRefusalReturns(dataset, licenses, restricted) ==
    LET restrictionCheck == checkRestrictions(dataset)
        licenseCheck == checkLicense(dataset)
        blocked == restricted /\ ~restrictionCheck.allowed
        warned == ~blocked /\ licenses /\ licenseCheck.restrictive
    IN  [allowed |-> ~blocked,
         warnings |-> IF warned THEN << licenseCheck.warning >> ELSE << >>,
         errors |-> IF blocked
                    THEN << [reason |-> restrictionCheck.reason,
                             keyword |-> restrictionCheck.keyword] >>
                    ELSE << >>,
         compliance |-> [licenseCheck |-> ~warned,
                         restrictionCheck |-> ~blocked,
                         piiCheck |-> TRUE]]

\* the verdict when a restrictive license blocks as well
verdictLicenseBlocks(dataset, licenses, restricted) ==
    LET restrictionCheck == checkRestrictions(dataset)
        licenseCheck == checkLicense(dataset)
        blocked == restricted /\ ~restrictionCheck.allowed
        warned == licenses /\ licenseCheck.restrictive
    IN  [allowed |-> ~blocked /\ ~warned,
         warnings |-> IF warned THEN << licenseCheck.warning >> ELSE << >>,
         errors |-> IF blocked
                    THEN << [reason |-> restrictionCheck.reason,
                             keyword |-> restrictionCheck.keyword] >>
                    ELSE << >>,
         compliance |-> [licenseCheck |-> ~warned,
                         restrictionCheck |-> ~blocked,
                         piiCheck |-> TRUE]]

\* validationResult as validateDatasetAccess returns it, given this.respectLicenses
\* and this.blockRestrictedData
verdict(dataset, licenses, restricted) ==
    LET restrictionCheck == checkRestrictions(dataset)
        licenseCheck == checkLicense(dataset)
        blocked == restricted /\ ~restrictionCheck.allowed
        warned == licenses /\ licenseCheck.restrictive
    IN  [allowed |-> ~blocked,
         warnings |-> IF warned THEN << licenseCheck.warning >> ELSE << >>,
         errors |-> IF blocked
                    THEN << [reason |-> restrictionCheck.reason,
                             keyword |-> restrictionCheck.keyword] >>
                    ELSE << >>,
         compliance |-> [licenseCheck |-> ~warned,
                         restrictionCheck |-> ~blocked,
                         piiCheck |-> TRUE]]

\* validateDatasetAccess(dataset), with checkRestrictions, checkLicense and logAccess:
\* what the call does to the governance layer
validateDatasetAccess(dataset) ==
    \E validationResult \in {verdict(dataset, respectLicenses, blockRestrictedData)} :
        /\ blockedDatasets' = IF ~validationResult.allowed
                              THEN blockedDatasets \cup {dataset.id}
                              ELSE blockedDatasets
        /\ licenseWarnings' = IF validationResult.warnings # << >>
                              THEN licenseWarnings \cup {dataset.id}
                              ELSE licenseWarnings
        /\ auditLog' = logAccess(dataset, validationResult)
        /\ validation' = [called |-> TRUE, dataset |-> dataset, result |-> validationResult]

\* validateDatasetAccess is called on its own
ValidateDatasetAccess(dataset) ==
    /\ validateDatasetAccess(dataset)
    /\ UNCHANGED << governanceFlags, notGovernance >>

\* reset()
reset ==
    /\ auditLog # << >> \/ blockedDatasets # {} \/ licenseWarnings # {}
    /\ auditLog' = << >>
    /\ blockedDatasets' = {}
    /\ licenseWarnings' = {}
    /\ UNCHANGED << governanceFlags, validation, notGovernance >>

\* The verdicts that logAccess is given when it is called on its own
LoggedVerdicts ==
    {[allowed |-> TRUE, warnings |-> << >>, errors |-> << >>,
      compliance |-> [licenseCheck |-> TRUE, restrictionCheck |-> TRUE, piiCheck |-> TRUE]]}

\* logAccess(dataset, validationResult) called on its own
LogAccess(dataset, validationResult) ==
    /\ auditLog' = logAccess(dataset, validationResult)
    /\ UNCHANGED << governanceFlags, blockedDatasets, licenseWarnings, validation,
                    notGovernance >>

\* logActivity(activity, details)
LogActivity(activity, details) ==
    /\ auditLog' = IF enableAuditLog
                   THEN pushAudit(auditLog, [activity |-> activity, details |-> details])
                   ELSE auditLog
    /\ UNCHANGED << governanceFlags, blockedDatasets, licenseWarnings, validation,
                    notGovernance >>

\* getComplianceSummary()
getComplianceSummary ==
    [totalAccessAttempts |->
         Cardinality({i \in 1..Len(auditLog) :
                         /\ "action" \in DOMAIN auditLog[i]
                         /\ auditLog[i].action = "ACCESS_ATTEMPT"}),
     blockedDatasets |-> Cardinality(blockedDatasets),
     licenseWarnings |-> Cardinality(licenseWarnings),
     piiDetectionEnabled |-> piiDetection,
     auditLogEnabled |-> enableAuditLog,
     policies |-> [respectLicenses |-> respectLicenses,
                   blockRestrictedData |-> blockRestrictedData,
                   enableAuditLog |-> enableAuditLog,
                   piiDetection |-> piiDetection]]

GovernanceNext ==
    \/ \E dataset \in GovernedDatasets : ValidateDatasetAccess(dataset)
    \/ reset

\* The items validated where the audit log is followed: open-licensed or with no
\* license, with and without a restriction keyword
AuditedDatasets ==
    {dataset \in GovernedDatasets :
        /\ dataset.id = "ds-a" /\ dataset.tags = << >>
        /\ dataset.description \in {<< "health", "data" >>, << "Confidential", "records" >>}
        /\ dataset.license \in {[license_title |-> "", license_id |-> ""],
                                [license_title |-> "CC-BY 4.0", license_id |-> ""]}}

AuditNext ==
    \/ \E dataset \in AuditedDatasets : ValidateDatasetAccess(dataset)
    \/ \E dataset \in AuditedDatasets, validationResult \in LoggedVerdicts :
          LogAccess(dataset, validationResult)
    \/ LogActivity("DATA_EXPORT", "csv")
    \/ reset

(***************************************************************************)
(* GovernanceLayer.validateResourceDownload                                *)
(***************************************************************************)
\* size above which validateResourceDownload warns (500 MB), scaled
largeFileSize == 3

\* The url strings of the model; "" is a missing url
Urls ==
    {"https://data.gov.in/files/a.csv",
     "http://LOCALHOST:8080/a.csv",
     "http://localhost.example.org/a.csv",
     "http://169.254.169.254/latest/meta-data",
     "http://127.0.0.1/a.csv",
     "ftp://data.gov.in/a.csv",
     "file:///etc/passwd",
     "data.gov.in/a.csv"}

\* new URL(url): protocol and hostname (lower case, without port), or a throw
parseURL(url) ==
    CASE url = "https://data.gov.in/files/a.csv"
            -> [valid |-> TRUE, protocol |-> "https:", hostname |-> "data.gov.in"]
      [] url = "http://LOCALHOST:8080/a.csv"
            -> [valid |-> TRUE, protocol |-> "http:", hostname |-> "localhost"]
      [] url = "http://localhost.example.org/a.csv"
            -> [valid |-> TRUE, protocol |-> "http:", hostname |-> "localhost.example.org"]
      [] url = "http://169.254.169.254/latest/meta-data"
            -> [valid |-> TRUE, protocol |-> "http:", hostname |-> "169.254.169.254"]
      [] url = "http://127.0.0.1/a.csv"
            -> [valid |-> TRUE, protocol |-> "http:", hostname |-> "127.0.0.1"]
      [] url = "ftp://data.gov.in/a.csv"
            -> [valid |-> TRUE, protocol |-> "ftp:", hostname |-> "data.gov.in"]
      [] url = "file:///etc/passwd"
            -> [valid |-> TRUE, protocol |-> "file:", hostname |-> ""]
      [] OTHER -> [valid |-> FALSE, protocol |-> "", hostname |-> ""]

allowedProtocols == {"http:", "https:"}

\* the host list without 'localhost'
suspiciousHostsNoLocalhost == << "127.0.0.1", "0.0.0.0", "169.254.169.254" >>

suspiciousHosts == << "localhost", "127.0.0.1", "0.0.0.0", "169.254.169.254" >>

\* parsedURL.hostname.includes(host)
hostnameIncludes(hostname, host) ==
    \/ hostname = host
    \/ hostname = "localhost.example.org" /\ host = "localhost"

\* validateURL(url)
validateURL(url) ==
    LET parsedURL == parseURL(url)
    IN  IF ~parsedURL.valid
        THEN [safe |-> FALSE, reason |-> "Invalid URL"]
        ELSE IF parsedURL.protocol \notin allowedProtocols
        THEN [safe |-> FALSE, reason |-> "Unsafe protocol"]
        ELSE IF \E i \in 1..Len(suspiciousHosts) :
                    hostnameIncludes(parsedURL.hostname, suspiciousHosts[i])
        THEN [safe |-> FALSE, reason |-> "Cannot access internal/localhost URLs"]
        ELSE [safe |-> TRUE, reason |-> ""]

\* validateResourceDownload(resource): its result
validateResourceDownload(resource) ==
    LET urlValidation == validateURL(resource.url)
        unsafe == resource.url # "" /\ ~urlValidation.safe
    IN  [allowed |-> ~unsafe,
         warnings |-> IF resource.size # 0 /\ resource.size > largeFileSize
                      THEN << "Large file size" >> ELSE << >>,
         errors |-> IF unsafe THEN << urlValidation.reason >> ELSE << >>]

\* The resources validateResourceDownload is given
CheckedResources == [url : Urls \cup {""}, size : {0, 1, largeFileSize + 1}]

\* validateResourceDownload is called
ValidateResourceDownload(resource) ==
    /\ resourceCheck' = [called |-> TRUE, resource |-> resource,
                         result |-> validateResourceDownload(resource)]
    /\ UNCHANGED notResourceCheck

ResourceCheckNext == \E resource \in CheckedResources : ValidateResourceDownload(resource)

(***************************************************************************)
(* actor main: executeSearchMode and executeRetrieveMode                   *)
(***************************************************************************)
\* resourceLimit: 3 in the options executeRetrieveMode gives to acquireDataset
retrieveResourceLimit == 3

\* resourceLimit = 3 in the destructuring of the input
defaultResourceLimit == 3

\* A credential that the caller leaves out, and the null the client keeps in its place
Undefined == "<undefined>"
Null == "<null>"

\* The credentials a caller can give: none, an empty string, a value
Credentials == {Undefined, "", "secret"}

\* authentication = {} in the destructuring of the input
defaultAuthentication == [apiKey |-> Undefined, oauthToken |-> Undefined]

\* the input when the caller gives none of the fields
DefaultInput == [resourceLimit |-> defaultResourceLimit, authentication |-> defaultAuthentication]

\* the inputs of the runs: the caller's resourceLimit
Inputs == {[DefaultInput EXCEPT !.resourceLimit = n] : n \in 1..(MaxResources + 1)}

\* the inputs of the calls: the caller's credentials
AuthInputs ==
    {[DefaultInput EXCEPT !.authentication = [apiKey |-> k, oauthToken |-> t]] :
        k \in Credentials, t \in Credentials}

\* a || null: an undefined or empty credential becomes null
OrNull(a) == IF a = Undefined \/ a = "" THEN Null ELSE a

\* this.apiKey and this.oauthToken of the client that main constructs
apiKey == OrNull(input.authentication.apiKey)
oauthToken == OrNull(input.authentication.oauthToken)

\* headers of axios.create for this.client, and the headers downloadResource gives axios
clientHeaders ==
    {<< "Content-Type", "application/json" >>, << "User-Agent", "DataGovIN-Sentinel-Actor/1.0" >>}
downloadHeaders == {<< "User-Agent", "DataGovIN-Sentinel-Actor/1.0" >>}

\* config.headers[name] = value
setHeader(headers, name, value) ==
    {h \in headers : h[1] # name} \cup {<< name, value >>}

\* Request interceptor that adds every configured credential
requestInterceptorBoth(headers) ==
    LET withBearer == IF oauthToken # Null
                      THEN setHeader(headers, "Authorization", << "Bearer", oauthToken >>)
                      ELSE headers
    IN  IF apiKey # Null THEN setHeader(withBearer, "X-API-Key", apiKey) ELSE withBearer

\* Request interceptor of this.client: the bearer token, else the API key
requestInterceptor(headers) ==
    IF oauthToken # Null
    THEN setHeader(headers, "Authorization", << "Bearer", oauthToken >>)
    ELSE IF apiKey # Null
    THEN setHeader(headers, "X-API-Key", apiKey)
    ELSE headers

\* The headers a call leaves with: this.client passes its request through the
\* interceptor, downloadResource calls axios itself
sentHeaders(kind) ==
    IF kind = "request" THEN requestInterceptor(clientHeaders) ELSE downloadHeaders

\* this.resourceLimit of the DataAcquisition that main constructs: config.resourceLimit || 3
configuredResourceLimit == OrDefault(input.resourceLimit, resourceLimit)

\* const limit = Math.min(options.resourceLimit || this.resourceLimit, resources.length),
\* with the options executeRetrieveMode gives
retrieveLimit(n) == Min(OrDefault(retrieveResourceLimit, configuredResourceLimit), n)

RunIdle == [pc |-> "idle"]

\* item.name: the property, or the default when the item has none
Field(item, name, default) == IF name \in DOMAIN item THEN item[name] ELSE default

\* What validateDatasetAccess reads of the item it is given
asGoverned(item) ==
    [id |-> item.id,
     title |-> Field(item, "title", << >>),
     description |-> IF Field(item, "description", << >>) # << >>
                     THEN item.description ELSE Field(item, "notes", << >>),
     tags |-> Field(item, "tags", << >>),
     license |-> [license_title |-> Field(item, "license_title", ""),
                  license_id |-> Field(item, "license_id", "")]]

\* The descriptors the remote can hold for an id of a run
RetrievedPackages(id) ==
    {Package(id, NoScore, notes, lic) :
        notes \in {<< "health" >>, << "Confidential", "records" >>},
        lic \in {"", "CC-BY 4.0"}}

\* What packageShow(id) can come to in a run
RetrievedOutcomes(id) ==
    {[kind |-> "found", package |-> p] : p \in RetrievedPackages(id)} \cup {[kind |-> "error"]}

\* The attachments of the descriptors of a run
RunResources ==
    [format : {"CSV"}, size : {0},
     url : {"", "https://data.gov.in/files/a.csv", "http://169.254.169.254/latest/meta-data"}]

\* What the page request of the search of a run can come to
SearchAnswers ==
    {[failed |-> TRUE, found |-> << >>]}
        \cup {[failed |-> FALSE, found |-> r] : r \in UNION {[1..n -> SearchPackages] : n \in 0..1}}

\* searchDiscovery.search(query, filters, maxResults), given the answer to its page request
searchResults(answer) ==
    IF answer.failed \/ ~searchResultInScope
    THEN [success |-> FALSE, results |-> << >>]
    ELSE [success |-> TRUE,
          results |-> [i \in 1..Min(Len(answer.found), MaxResults) |->
                          formattedResults(answer.found, MaxResults)[i].descriptor]]

\* searchDiscovery.searchByIds(datasetIds), given what each packageShow comes to
searchByIds(ids, outcomes) == [i \in 1..Len(ids) |-> ByIdRecord(ids[i], outcomes[i])[1]]

\* The state of a run that has its datasets
RunWith(mode, includeResources, datasets) ==
    [pc |-> IF Len(datasets) = 0 THEN "done" ELSE "validate",
     mode |-> mode, ids |-> << >>, includeResources |-> includeResources, datasets |-> datasets,
     verdicts |-> << >>, acquisitions |-> {}, results |-> << >>,
     limit |-> 0, processed |-> 0, downloads |-> {}]

\* throw new Error(`Search failed: ...`)
RunThrown(mode) ==
    [pc |-> "thrown", cause |-> "Search failed", mode |-> mode, ids |-> << >>,
     includeResources |-> FALSE, datasets |-> << >>,
     verdicts |-> << >>, acquisitions |-> {}, results |-> << >>,
     limit |-> 0, processed |-> 0, downloads |-> {}]

\* if (!validation.allowed) continue: never withholds
withheldNever(allowed) == FALSE

\* if (!validation.allowed) continue / if (validation.allowed) push
withheld(allowed) == ~allowed

\* the position of the loop after the dataset in hand
afterItem == IF Len(run.verdicts) = Len(run.datasets) THEN "done" ELSE "validate"

\* { dataset, resources: [] } for a dataset that is pushed as it is: no item has an error
carriesErrorNever(dataset) == FALSE

\* { dataset, resources: [] } for a dataset that is pushed as it is: the item has the
\* error of the record that searchByIds made for a failed id
carriesError(dataset) == "error" \in DOMAIN dataset

\* results.push({...}) for the dataset in hand, with what acquireDataset returned:
\* { success: true, dataset, resources } or { success: false, datasetId, error }
pushResult(success, warnings, resourceCount) ==
    Append(run.results, [index |-> Len(run.verdicts), id |-> run.datasets[Len(run.verdicts)].id,
                         success |-> success, error |-> ~success, warnings |-> warnings,
                         resourceCount |-> resourceCount])

\* executeSearchMode: the search, and the throw when it did not succeed
ExecuteSearchMode(answer) ==
    /\ run.pc = "idle"
    /\ run' = IF searchResults(answer).success
              THEN RunWith("search", FALSE, searchResults(answer).results)
              ELSE RunThrown("search")
    /\ UNCHANGED << governanceVars, notRun >>

\* executeRetrieveMode with dataset ids: searchByIds
ExecuteRetrieveByIds(ids, includeResources) ==
    /\ run.pc = "idle"
    /\ Len(ids) > 0
    /\ \E outcomes \in [1..Len(ids) -> UNION {RetrievedOutcomes(id) : id \in DatasetIds}] :
          /\ \A i \in 1..Len(ids) : outcomes[i] \in RetrievedOutcomes(ids[i])
          /\ run' = [RunWith("retrieve", includeResources, searchByIds(ids, outcomes))
                        EXCEPT !.ids = ids]
    /\ UNCHANGED << governanceVars, notRun >>

\* executeRetrieveMode without dataset ids: the search, and the throw
ExecuteRetrieveBySearch(answer, includeResources) ==
    /\ run.pc = "idle"
    /\ run' = IF searchResults(answer).success
              THEN RunWith("retrieve", includeResources, searchResults(answer).results)
              ELSE RunThrown("retrieve")
    /\ UNCHANGED << governanceVars, notRun >>

\* One turn of the dataset loop up to the acquisition: the governance check, then
\* the dataset is skipped, pushed, or its acquisition started
RunValidate ==
    /\ run.pc = "validate"
    /\ \E dataset \in {asGoverned(run.datasets[Len(run.verdicts) + 1])} :
          /\ validateDatasetAccess(dataset)
          /\ \E allowed \in {~(blockRestrictedData /\ ~checkRestrictions(dataset).allowed)},
                warnings \in {IF respectLicenses /\ checkLicense(dataset).restrictive
                              THEN << checkLicense(dataset).warning >> ELSE << >>} :
                \E next \in {[run EXCEPT !.verdicts = Append(@, allowed)]} :
                    run' = IF withheld(allowed)
                           THEN [next EXCEPT
                                    !.pc = IF Len(next.verdicts) = Len(run.datasets)
                                           THEN "done" ELSE "validate"]
                           ELSE IF run.mode = "retrieve" /\ run.includeResources
                           THEN [next EXCEPT
                                    !.pc = "show",
                                    !.acquisitions = @ \cup {Len(next.verdicts)}]
                           ELSE [next EXCEPT
                                    !.pc = IF Len(next.verdicts) = Len(run.datasets)
                                           THEN "done" ELSE "validate",
                                    !.results = Append(@,
                                        [index |-> Len(next.verdicts),
                                         id |-> dataset.id,
                                         success |-> TRUE,
                                         error |-> carriesError(
                                             run.datasets[Len(next.verdicts)]),
                                         warnings |-> warnings,
                                         resourceCount |-> 0])]
    /\ UNCHANGED << governanceFlags, notRun >>

\* acquireDataset of the run: packageShow fails; the failure is pushed as the result
RunShowFails ==
    /\ run.pc = "show"
    /\ run' = [run EXCEPT
           !.pc = afterItem,
           !.results = pushResult(FALSE, validation.result.warnings, 0)]
    /\ UNCHANGED << governanceVars, notRun >>

\* acquireDataset of the run: packageShow returns a descriptor with n attachments
RunShow(n) ==
    /\ run.pc = "show"
    /\ LET limit == retrieveLimit(n)
       IN  run' = [run EXCEPT
               !.limit = limit,
               !.processed = 0,
               !.pc = IF limit > 0 THEN "resource" ELSE afterItem,
               !.results = IF limit > 0 THEN @
                           ELSE pushResult(TRUE, validation.result.warnings, 0)]
    /\ UNCHANGED << governanceVars, notRun >>

\* acquireDataset of the run: one turn of the resource loop
RunResource(resource, remote) ==
    /\ run.pc = "resource"
    /\ LET got == acquireResource(run.processed + 1, resource,
                                  [includeData |-> TRUE, maxFileSize |-> maxFileSize], remote)
           last == run.processed + 1 = run.limit
       IN  run' = [run EXCEPT
               !.processed = @ + 1,
               !.downloads = IF got.download THEN @ \cup {resource.url} ELSE @,
               !.pc = IF last THEN afterItem ELSE "resource",
               !.results = IF last
                           THEN pushResult(TRUE, validation.result.warnings, run.limit)
                           ELSE @]
    /\ UNCHANGED << governanceVars, notRun >>

\* The modes of the switch of main, and modes it does not know (mode = 'search' stands
\* in for an undefined mode only)
Modes == {"search", "retrieve", "analyze", "monitor"}
UnknownModes == {"", "export"}

\* if (!connectionOk) throw new Error('Failed to connect to data.gov.in API. ...'):
\* testConnection comes before the modules are constructed and before the switch
ConnectionFails(mode) ==
    /\ run.pc = "idle"
    /\ run' = [RunThrown(mode) EXCEPT !.cause = "Failed to connect"]
    /\ UNCHANGED << governanceVars, notRun >>

\* default: throw new Error(`Unknown mode: ${mode}`), after a connection test that passed
UnknownMode(mode) ==
    /\ run.pc = "idle"
    /\ mode \notin Modes
    /\ run' = [RunThrown(mode) EXCEPT !.cause = "Unknown mode"]
    /\ UNCHANGED << governanceVars, notRun >>

\* What main pushes at its end when it reports success whatever happened
pushedDataAlwaysSuccess(r) ==
    << [success |-> TRUE, resultsCount |-> Len(r.results)] >>
        \o [i \in 1..Len(r.results) |-> [item |-> r.results[i].index]]

\* What main pushes at its end: finalOutput and then each result, or, in the catch,
\* the error report
pushedData(r) ==
    IF r.pc = "thrown"
    THEN << [success |-> FALSE, error |-> r.cause] >>
    ELSE << [success |-> TRUE, resultsCount |-> Len(r.results)] >>
             \o [i \in 1..Len(r.results) |-> [item |-> r.results[i].index]]

\* The run returns its results or throws (the catch of main throws the error again);
\* the next run constructs its own governance layer
RunDone ==
    /\ run.pc \in {"done", "thrown"}
    /\ run' = [pc |-> "idle", threw |-> run.pc = "thrown",
               cause |-> IF run.pc = "thrown" THEN run.cause ELSE "",
               reports |-> pushedData(run)]
    /\ auditLog' = << >>
    /\ blockedDatasets' = {}
    /\ licenseWarnings' = {}
    /\ validation' = [called |-> FALSE]
    /\ UNCHANGED << governanceFlags, notRun >>

RunNext ==
    \/ \E answer \in SearchAnswers : ExecuteSearchMode(answer)
    \/ \E n \in 1..MaxIds, includeResources \in BOOLEAN :
          ExecuteRetrieveByIds(BatchIds(n), includeResources)
    \/ \E answer \in SearchAnswers, includeResources \in BOOLEAN :
          ExecuteRetrieveBySearch(answer, includeResources)
    \/ RunValidate
    \/ RunShowFails
    \/ \E n \in 0..MaxResources : RunShow(n)
    \/ \E resource \in RunResources, remote \in RemoteBehaviours : RunResource(resource, remote)
    \/ \E mode \in Modes \cup UnknownModes : ConnectionFails(mode)
    \/ \E mode \in UnknownModes : UnknownMode(mode)
    \/ RunDone

(***************************************************************************)
(* utils: redactPII, and GovernanceLayer.redactPIIContent                  *)
(***************************************************************************)
\* the texts redacted are sequences of at most MaxSegments segments
MaxSegments == 3

\* \d{12} and \d{10}
aadhaarDigits == 12
phoneDigits == 10

\* a text is the sequence of its characters
Chars(n, c) == [i \in 1..n |-> c]

Segments ==
    {<< "a", "@", "b", ".", "c" >>, << "-" >>, << " " >>,
     Chars(phoneDigits, "1"), Chars(aadhaarDigits, "1")}

RECURSIVE Texts(_)
Texts(n) ==
    IF n = 0 THEN {<< >>}
    ELSE Texts(n - 1) \cup {t \o segment : t \in Texts(n - 1), segment \in Segments}

\* \d, \w and [\w\.-]
digitChars == {"0", "1", "2", "3", "4", "5", "6", "7", "8", "9"}
wordChars ==
    digitChars \cup {"_", "X"}
        \cup {"a", "b", "c", "d", "e", "f", "g", "h", "i", "j", "k", "l", "m",
              "n", "o", "p", "q", "r", "s", "t", "u", "v", "w", "x", "y", "z"}
localChars == wordChars \cup {".", "-"}

\* whether the character at position p of the text is a word character
isWordAt(text, p) == p >= 1 /\ p <= Len(text) /\ text[p] \in wordChars

\* \b just before position p
boundary(text, p) == isWordAt(text, p - 1) # isWordAt(text, p)

\* the position after the longest run of characters of the class that starts at p
runEnd(text, p, class) ==
    CHOOSE e \in p..(Len(text) + 1) :
        /\ \A i \in p..(e - 1) : text[i] \in class
        /\ e = Len(text) + 1 \/ text[e] \notin class

\* /\b\d{n}\b/ at position p: the position after the match, 0 when there is none
digitsEnd(text, p, n) ==
    IF /\ boundary(text, p)
       /\ runEnd(text, p, digitChars) = p + n
       /\ boundary(text, p + n)
    THEN p + n ELSE 0

\* /\b[\w\.-]+@[\w\.-]+\.\w+\b/ at position p: the position after the (greedy)
\* match, 0 when there is none
emailEnd(text, p) ==
    LET at == runEnd(text, p, localChars)
        domainEnd == runEnd(text, at + 1, localChars)
        dots == {j \in (at + 2)..(domainEnd - 1) : text[j] = "." /\ isWordAt(text, j + 1)}
        lastDot == CHOOSE j \in dots : \A i \in dots : i <= j
    IN  IF /\ boundary(text, p)
           /\ at > p
           /\ at <= Len(text) /\ text[at] = "@"
           /\ dots # {}
        THEN runEnd(text, lastDot + 1, wordChars) ELSE 0

matchEnd(pattern, text, p) ==
    CASE pattern = "aadhaar" -> digitsEnd(text, p, aadhaarDigits)
      [] pattern = "email" -> emailEnd(text, p)
      [] pattern = "phone" -> digitsEnd(text, p, phoneDigits)

replacement(pattern) ==
    CASE pattern = "aadhaar" -> Chars(aadhaarDigits, "X")
      [] pattern = "email" -> << "e", "m", "a", "i", "l", "@", "r", "e", "d", "a", "c", "t",
                                 "e", "d", ".", "c", "o", "m" >>
      [] pattern = "phone" -> Chars(phoneDigits, "X")

\* text.replace(/pattern/g, replacement), from position p on
RECURSIVE replaceFrom(_, _, _)
replaceFrom(pattern, text, p) ==
    IF p > Len(text) THEN << >>
    ELSE LET e == matchEnd(pattern, text, p)
         IN  IF e > 0
             THEN replacement(pattern) \o replaceFrom(pattern, text, e)
             ELSE << text[p] >> \o replaceFrom(pattern, text, p + 1)

redactPII(text) ==
    IF text = << >> THEN text
    ELSE replaceFrom("phone", replaceFrom("email", replaceFrom("aadhaar", text, 1), 1), 1)

redactPIIContent(text) ==
    IF ~piiDetection \/ text = << >> THEN text ELSE redactPII(text)

\* governanceLayer.redactPIIContent(text)
RedactPIIContent(text) ==
    /\ redaction.pc = "idle"
    /\ redaction' = [pc |-> "once", text |-> text, once |-> redactPIIContent(text),
                     twice |-> << >>]
    /\ UNCHANGED << backoff, notUtils >>

\* governanceLayer.redactPIIContent of what the first call returned
RedactAgain ==
    /\ redaction.pc = "once"
    /\ redaction' = [redaction EXCEPT !.pc = "twice", !.twice = redactPIIContent(redaction.once)]
    /\ UNCHANGED << backoff, notUtils >>

RedactionNext ==
    \/ \E text \in Texts(MaxSegments) : RedactPIIContent(text)
    \/ RedactAgain

(***************************************************************************)
(* utils: calculateBackoff                                                 *)
(***************************************************************************)
\* attempts are 0..MaxAttempt; Math.random() is one of 0/JitterSteps, ...,
\* (JitterSteps - 1)/JitterSteps
MaxAttempt == 5
JitterSteps == 4

\* baseDelay = 1000, maxDelay = 30000
defaultBaseDelay == 1000
defaultMaxDelay == 30000

\* a default parameter value: taken when the argument is not given
Default(argument, value) == IF argument = Absent THEN value ELSE argument

BaseDelays == {Absent, 1, 4}
MaxDelays == {Absent, 1, 6, 16}

\* Math.min(baseDelay * Math.pow(2, attempt), maxDelay)
exponentialDelay(attempt, baseDelay, maxDelay) ==
    Min(Default(baseDelay, defaultBaseDelay) * 2 ^ attempt, Default(maxDelay, defaultMaxDelay))

\* calculateBackoff with a jitter of half the delay: exponentialDelay * 0.5 * (random * 2 - 1)
calculateBackoffHalfJitter(attempt, baseDelay, maxDelay, random) ==
    LET delay == exponentialDelay(attempt, baseDelay, maxDelay)
    IN  (delay * (JitterSteps + 2 * random)) \div (2 * JitterSteps)

\* Math.floor(exponentialDelay + exponentialDelay * 0.25 * (Math.random() * 2 - 1)),
\* where Math.random() is random / JitterSteps:
\* exponentialDelay * (3 * JitterSteps + 2 * random) / (4 * JitterSteps), rounded down
calculateBackoff(attempt, baseDelay, maxDelay, random) ==
    LET delay == exponentialDelay(attempt, baseDelay, maxDelay)
    IN  (delay * (3 * JitterSteps + 2 * random)) \div (4 * JitterSteps)

CalculateBackoff(attempt, baseDelay, maxDelay, random) ==
    /\ backoff' = [called |-> TRUE, attempt |-> attempt,
                   baseDelay |-> Default(baseDelay, defaultBaseDelay),
                   maxDelay |-> Default(maxDelay, defaultMaxDelay),
                   delay |-> calculateBackoff(attempt, baseDelay, maxDelay, random)]
    /\ UNCHANGED << redaction, notUtils >>

BackoffNext ==
    \E attempt \in 0..MaxAttempt, baseDelay \in BaseDelays, maxDelay \in MaxDelays,
       random \in 0..(JitterSteps - 1) :
        CalculateBackoff(attempt, baseDelay, maxDelay, random)

(***************************************************************************)
(* DataGovINClient: the attempts of one call (axios-retry on this.client)  *)
(***************************************************************************)
\* config.retryAttempts is absent or 0..MaxRetries
MaxRetries == 2

\* config.retryAttempts || 5
defaultRetryAttempts == 5

\* What one attempt comes to: status 0 is a network error (no response); a 2xx
\* response carries a body that reports success, reports success: false, or
\* is null
Responses ==
    {[status |-> 0, body |-> "none"],
     [status |-> 200, body |-> "ok"],
     [status |-> 200, body |-> "unsuccessful"],
     [status |-> 200, body |-> "null"],
     [status |-> 400, body |-> "none"],
     [status |-> 404, body |-> "none"],
     [status |-> 429, body |-> "none"],
     [status |-> 503, body |-> "none"]}

\* the attempt was rejected by axios: no response, or a status outside 2xx
rejected(response) == response.status = 0 \/ response.status >= 300

\* retryCondition that also retries 4xx responses
retryConditionAnyError(response) == rejected(response)

\* isNetworkOrIdempotentRequestError(error) || status >= 500 || status === 429
retryCondition(response) ==
    \/ response.status = 0
    \/ response.status >= 500
    \/ response.status = 429

\* whether the call retries after the rejected attempt: axios-retry is installed
\* on this.client, which request uses; downloadResource uses axios itself
retries(kind, response, retryCount, retryAttempts) ==
    /\ kind = "request"
    /\ retryCondition(response)
    /\ retryCount < retryAttempts

CallIdle == [pc |-> "idle"]

\* The call before its first attempt
NewCall(kind, retryAttempts) ==
    [pc |-> "attempting", kind |-> kind, headers |-> sentHeaders(kind),
     configured |-> retryAttempts,
     retryAttempts |-> OrDefault(retryAttempts, defaultRetryAttempts),
     responses |-> << >>, retryCount |-> 0, delay |-> 0]

\* new DataGovINClient(config), then client.request(...) or client.downloadResource(...)
Call(kind, retryAttempts) ==
    /\ call.pc = "idle"
    /\ call' = NewCall(kind, retryAttempts)
    /\ UNCHANGED notCall

\* One attempt and what follows it: the result is returned, the error is
\* thrown to the caller, or a retry is scheduled
Attempt(response) ==
    /\ call.pc = "attempting"
    /\ call' = [call EXCEPT
           !.responses = Append(@, response),
           !.pc = IF rejected(response)
                  THEN IF retries(call.kind, response, call.retryCount, call.retryAttempts)
                       THEN "waiting" ELSE "thrown"
                  ELSE IF call.kind = "request" /\ response.body # "ok"
                  THEN "thrown" ELSE "returned"]
    /\ UNCHANGED notCall

\* retryDelay: calculateBackoff(retryCount - 1), then the next attempt
Retry(random) ==
    /\ call.pc = "waiting"
    /\ call' = [call EXCEPT
           !.retryCount = @ + 1,
           !.delay = calculateBackoff(call.retryCount, Absent, Absent, random),
           !.pc = "attempting"]
    /\ UNCHANGED notCall

\* The caller has the result or the error
CallDone ==
    /\ call.pc \in {"returned", "thrown"}
    /\ call' = CallIdle
    /\ UNCHANGED notCall

CallNext ==
    \/ \E kind \in {"request", "download"}, retryAttempts \in {Absent} \cup 0..MaxRetries :
          Call(kind, retryAttempts)
    \/ \E response \in Responses : Attempt(response)
    \/ \E random \in 0..(JitterSteps - 1) : Retry(random)
    \/ CallDone

(***************************************************************************)
(* A call inside its limiter job: limiter.schedule(async () => { ... })    *)
(***************************************************************************)
\* The responses that decide how a job goes: transient, final failure, success,
\* unsuccessful payload
JobResponses ==
    {[status |-> 503, body |-> "none"], [status |-> 404, body |-> "none"],
     [status |-> 200, body |-> "ok"], [status |-> 200, body |-> "unsuccessful"]}

\* How the job ends for the counters, from the end of its call
jobOutcome ==
    IF call.pc = "returned" THEN "ok"
    ELSE IF ~rejected(call.responses[Len(call.responses)]) THEN "unsuccessful"
    ELSE "error"

\* The job body starts (this.stats.totalRequests++) and makes its first attempt; the
\* retries of axios-retry happen inside the same await, in the same job
JobBody(j, retryAttempts) ==
    /\ jobStatus[j] = "RUNNING"
    /\ startAt[j] <= now
    /\ call.pc = "idle"
    /\ jobStatus' = [jobStatus EXCEPT ![j] = "EXECUTING"]
    /\ stats' = [stats EXCEPT !.totalRequests = @ + 1]
    /\ call' = NewCall(jobKind[j], retryAttempts)
    /\ UNCHANGED << input, discoveryVars, acquisitionVars, governanceVars, resourceCheck, run,
                    utilVars, requestsPerHour, concurrentRequests, reservoir, queue, jobKind,
                    startAt, nextRequest, now, submittedInWindow, admittedInWindow >>

\* The job body ends and gives a unit of budget back when the call failed
JobSettledRefunding(j) ==
    /\ jobStatus[j] = "EXECUTING"
    /\ call.pc \in {"returned", "thrown"}
    /\ jobStatus' = [jobStatus EXCEPT ![j] = "DONE"]
    /\ startAt' = [startAt EXCEPT ![j] = 0]
    /\ stats' = [stats EXCEPT
                   !.successfulRequests = IF jobOutcome \in {"ok", "unsuccessful"} THEN @ + 1 ELSE @,
                   !.failedRequests = IF jobOutcome \in {"unsuccessful", "error"} THEN @ + 1 ELSE @]
    /\ reservoir' = IF jobOutcome = "ok" THEN reservoir ELSE reservoir + 1
    /\ call' = CallIdle
    /\ UNCHANGED << input, discoveryVars, acquisitionVars, governanceVars, resourceCheck, run,
                    utilVars, requestsPerHour, concurrentRequests, queue, jobKind,
                    nextRequest, now, submittedInWindow, admittedInWindow >>

\* The job body ends with the result or the error of its call: the counters are
\* updated and the slot is released
JobSettled(j) ==
    /\ jobStatus[j] = "EXECUTING"
    /\ call.pc \in {"returned", "thrown"}
    /\ jobStatus' = [jobStatus EXCEPT ![j] = "DONE"]
    /\ startAt' = [startAt EXCEPT ![j] = 0]
    /\ stats' = [stats EXCEPT
                   !.successfulRequests = IF jobOutcome \in {"ok", "unsuccessful"} THEN @ + 1 ELSE @,
                   !.failedRequests = IF jobOutcome \in {"unsuccessful", "error"} THEN @ + 1 ELSE @]
    /\ reservoir' = reservoir
    /\ call' = CallIdle
    /\ UNCHANGED << input, discoveryVars, acquisitionVars, governanceVars, resourceCheck, run,
                    utilVars, requestsPerHour, concurrentRequests, queue, jobKind,
                    nextRequest, now, submittedInWindow, admittedInWindow >>

JobNext ==
    \/ \E j \in JobIds, operation \in ClientOperations : Submit(j, scheduledJob(operation))
    \/ Admit
    \/ \E j \in JobIds, retryAttempts \in 1..MaxRetries : JobBody(j, retryAttempts)
    \/ \E response \in JobResponses : Attempt(response)
    \/ Retry(0)
    \/ \E j \in JobIds : JobSettled(j)
    \/ Tick
    \/ Refill

(***************************************************************************)
(* The idle values of the remaining variables.                             *)
(***************************************************************************)
ResourceCheckIdle == [called |-> FALSE]

RedactionIdle == [pc |-> "idle"]

BackoffIdle == [called |-> FALSE]

(***************************************************************************)
(* Specifications: one per component.                                      *)
(***************************************************************************)
\* Every component before its first call, with the default configuration
AllIdle ==
    /\ IdleClient /\ DiscoveryInit /\ AcquisitionInit /\ IdleGovernance
    /\ input = DefaultInput
    /\ resourceCheck = ResourceCheckIdle
    /\ run = RunIdle
    /\ redaction = RedactionIdle
    /\ backoff = BackoffIdle
    /\ call = CallIdle

\* The variables outside the transport, the governance layer and the retries
RestIdle ==
    /\ DiscoveryInit /\ AcquisitionInit
    /\ input = DefaultInput
    /\ resourceCheck = ResourceCheckIdle
    /\ run = RunIdle
    /\ redaction = RedactionIdle
    /\ backoff = BackoffIdle

InitTransport == TransportInit /\ IdleGovernance /\ RestIdle /\ call = CallIdle

SpecTransport == InitTransport /\ [][TransportNext]_vars

\* A client with one slot and the largest rate
InitSlots ==
    /\ NewClient([requestsPerHour |-> MaxRate, concurrentRequests |-> 1])
    /\ IdleGovernance /\ RestIdle /\ call = CallIdle

\* The limiter takes its steps and the clock goes on; every call that has started
\* comes to an end (the 30 s and 60 s timeouts of axios bound each attempt, the
\* retries are bounded); whether a call is submitted is up to the caller
SpecTransportLive ==
    /\ InitSlots /\ [][TransportNext]_vars
    /\ WF_vars(Admit) /\ WF_vars(Tick) /\ WF_vars(Refill)
    /\ \A j \in JobIds :
          /\ WF_vars(Start(j))
          /\ WF_vars(\E outcome \in {"ok", "unsuccessful", "error"} : Complete(j, outcome))

\* A client of the largest rate that runs one call at a time, so that the attempts
\* of the call in its job can be followed
InitJobs ==
    /\ NewClient([requestsPerHour |-> MaxRate, concurrentRequests |-> 1])
    /\ IdleGovernance /\ RestIdle /\ call = CallIdle

SpecJobs == InitJobs /\ [][JobNext]_vars

InitDiscovery == AllIdle

SpecDiscovery == InitDiscovery /\ [][DiscoveryNext]_vars

\* The steps of a search call once it is made: the event loop runs the call on, and
\* the remote answers every page request (with a page or with an error)
SearchStep ==
    \/ \E resp \in PageResponses(batchSize) : SearchPage(resp)
    \/ SearchPageFails
    \/ SearchLoopExit
    \/ SearchReturn

SpecSearchLive == InitDiscovery /\ [][DiscoveryNext]_vars /\ WF_vars(SearchStep)

InitFacets == AllIdle

SpecFacets == InitFacets /\ [][FacetsNext]_vars

InitAcquisition == AllIdle

SpecAcquisition == InitAcquisition /\ [][AcquisitionNext]_vars

\* The verdicts are followed over all items with the audit log off; the audit
\* log is followed in SpecAudit
UnauditedGovernance ==
    \E config \in {c \in GovernanceConfigs : ~c.enableAuditLog} : NewGovernance(config)

InitGovernance == IdleClient /\ UnauditedGovernance /\ RestIdle /\ call = CallIdle

SpecGovernance == InitGovernance /\ [][GovernanceNext]_vars

InitAudit == IdleClient /\ GovernanceInit /\ RestIdle /\ call = CallIdle

SpecAudit == InitAudit /\ [][AuditNext]_vars

InitResourceCheck == IdleClient /\ GovernanceInit /\ RestIdle /\ call = CallIdle

SpecResourceCheck == InitResourceCheck /\ [][ResourceCheckNext]_vars

\* The governance layer of a run: piiDetection is read by no step of a run
RunGovernance == \E config \in {c \in GovernanceConfigs : c.piiDetection} : NewGovernance(config)

InitRun == IdleClient /\ RunGovernance /\ RestIdle /\ call = CallIdle

SpecRun == InitRun /\ [][RunNext]_vars

\* Runs with the default governance layer, for every input
InitRetrieve ==
    /\ IdleClient /\ IdleGovernance /\ DiscoveryInit /\ AcquisitionInit
    /\ input \in Inputs
    /\ resourceCheck = ResourceCheckIdle
    /\ run = RunIdle
    /\ redaction = RedactionIdle
    /\ backoff = BackoffIdle
    /\ call = CallIdle

SpecRetrieve == InitRetrieve /\ [][RunNext]_vars

InitRedaction == IdleClient /\ GovernanceInit /\ RestIdle /\ call = CallIdle

SpecRedaction == InitRedaction /\ [][RedactionNext]_vars

InitBackoff == IdleClient /\ IdleGovernance /\ RestIdle /\ call = CallIdle

SpecBackoff == InitBackoff /\ [][BackoffNext]_vars

InitCall == IdleClient /\ IdleGovernance /\ RestIdle /\ call = CallIdle

SpecCall == InitCall /\ [][CallNext]_vars

\* The client that main constructs with the caller's credentials
InitAuth ==
    /\ IdleClient /\ IdleGovernance /\ DiscoveryInit /\ AcquisitionInit
    /\ input \in AuthInputs
    /\ resourceCheck = ResourceCheckIdle
    /\ run = RunIdle
    /\ redaction = RedactionIdle
    /\ backoff = BackoffIdle
    /\ call = CallIdle

SpecAuth == InitAuth /\ [][CallNext]_vars

(***************************************************************************)
(* Claims about the transport.                                             *)
(***************************************************************************)
\* C1: for every configured concurrency cap and any number of submitted calls
\* (request and downloadResource jobs share the limiter), the number of calls
\* holding a slot of the limiter never exceeds concurrentRequests.
C1_ConcurrencyCapRespected == Cardinality(RunningJobs) <= concurrentRequests

\* C1 witness: the cap is what holds a call back: every slot is taken, by a
\* request and a download together, budget is left and a call is still queued.
C1_CapReached ==
    /\ Cardinality(RunningJobs) = concurrentRequests
    /\ \E i, j \in RunningJobs : jobKind[i] = "request" /\ jobKind[j] = "download"
    /\ reservoir > 0
    /\ queue # << >>

\* C2 as stated: when more than requestsPerHour calls were submitted in a refill
\* window, exactly requestsPerHour of them have been admitted when the window ends.
C2_BurstAdmitsExactlyRate ==
    (now = RefreshTicks /\ ~CanAdmit /\ submittedInWindow > requestsPerHour)
        => admittedInWindow = requestsPerHour

\* C2 amended: in a refill window at most requestsPerHour calls are admitted, each
\* admission needs budget, a call that is not admitted keeps its place in the
\* queue while the budget is 0, and the refill sets the budget back to
\* requestsPerHour so that the queued calls can be admitted again.
C2_BurstAdmitsAtMostRate ==
    [][ /\ admittedInWindow' <= requestsPerHour
        /\ (admittedInWindow' > admittedInWindow => reservoir > 0)
        /\ (reservoir = 0 /\ now' # 0
              => Len(queue') >= Len(queue) /\ SubSeq(queue', 1, Len(queue)) = queue)
        /\ (now = RefreshTicks /\ now' = 0 => reservoir' = requestsPerHour) ]_vars

\* C2 witness: a burst larger than the rate: requestsPerHour calls admitted, the
\* budget used up and the remainder waiting in the queue.
C2_BurstQueued ==
    /\ submittedInWindow > requestsPerHour
    /\ admittedInWindow = requestsPerHour
    /\ reservoir = 0
    /\ queue # << >>

(***************************************************************************)
(* Claims about search and discovery.                                      *)
(***************************************************************************)
\* C3: when every page request of a search call succeeds, the call returns
\* success = true, its results are the relevance-passing items accumulated from
\* the pages, at most maxResults of them, and it carries the declared total.
C3_SearchReturnsSuccess ==
    (search.pc = "done" /\ ~search.failed)
        => /\ search.ret.success
           /\ search.ret.results = formattedResults(search.results, search.maxResults)
           /\ Len(search.ret.results) <= search.maxResults
           /\ search.ret.totalAvailable = search.totalFound

\* C4: searchByIds pushes exactly one record per id, in input order, whatever the
\* fetches come to: the record of a fetched id has the descriptor fields and no
\* error field, the record of a failed id has the error field and no descriptor
\* field, and every id is fetched, the ones after a failed id included.
C4_OneRecordPerId ==
    /\ Len(byIds.results) = Len(byIds.fetches)
    /\ byIds.pc = "loop" => Len(byIds.fetches) = byIds.i - 1
    /\ byIds.pc = "done" => Len(byIds.fetches) = Len(byIds.ids)
    /\ \A i \in 1..Len(byIds.results) :
          /\ byIds.results[i].id = byIds.ids[i]
          /\ byIds.fetches[i] = "ok"
                => /\ DescriptorFields \subseteq DOMAIN byIds.results[i]
                   /\ "error" \notin DOMAIN byIds.results[i]
          /\ byIds.fetches[i] = "failed"
                => /\ "error" \in DOMAIN byIds.results[i]
                   /\ DescriptorFields \cap DOMAIN byIds.results[i] = {}

\* C4 witness: a call returns with the record of a failed id followed by the
\* record of an id fetched after it.
C4_FailedThenFetched ==
    /\ byIds.pc = "done"
    /\ Len(byIds.results) = 2
    /\ byIds.fetches = << "failed", "ok" >>
    /\ byIds.results[1].success = FALSE
    /\ byIds.results[2].title # << >>

(***************************************************************************)
(* Claims about the acquisition.                                           *)
(***************************************************************************)
\* acquireDataset has returned for the dataset whose descriptor was fetched last
DatasetAcquired ==
    /\ acquire.shows # << >>
    /\ acquire.shows[Len(acquire.shows)] = "found"
    /\ Len(acquire.results) = Len(acquire.shows)

\* C5: acquireDataset called with an attachment limit L on a dataset of N
\* attachments returns exactly min(L, N) outcomes, the i-th one being the outcome
\* of the i-th declared attachment.
C5_MinLimitOutcomesInOrder ==
    (DatasetAcquired /\ acquire.options.resourceLimit # Absent)
        => /\ Len(acquire.processed) = Min(acquire.options.resourceLimit, acquire.n)
           /\ \A i \in 1..Len(acquire.processed) : acquire.processed[i].id = i

\* C6: an attachment of a supported format whose declared size exceeds the cap
\* given in the options of the call gets an outcome with acquired = false and a
\* size reason, and no download is asked for it.
C6_OverCapNotDownloaded ==
    (acquire.processed # << >> /\ acquire.options.maxFileSize # Absent)
        => LET outcome == acquire.processed[Len(acquire.processed)]
           IN  (/\ toLowerCase(acquire.resource.format) \in supportedFormats
                /\ acquire.resource.size > acquire.options.maxFileSize)
                   => /\ outcome.acquired = FALSE
                      /\ outcome.reason = "size exceeds limit"
                      /\ outcome.id \notin acquire.downloads

\* C7: whatever downloads or decodings fail, acquireDataset returns success with
\* one outcome per selected attachment, and the outcome of an attachment whose
\* download or decoding failed has acquired = false and an error or a reason.
C7_FailuresNotAcquired ==
    DatasetAcquired
        => /\ acquire.results[Len(acquire.results)].success
           /\ Len(acquire.processed) = acquire.limit
           /\ \A i \in 1..Len(acquire.processed) :
                 (acquire.processed[i].error # "none" \/ acquire.processed[i].data = "unparsed")
                    => /\ acquire.processed[i].acquired = FALSE
                       /\ \/ acquire.processed[i].error # "none"
                          \/ acquire.processed[i].reason # "none"

\* C8: batchAcquire pushes exactly one result per id, in input order; the result
\* of an id whose descriptor could not be fetched has success = false, an error
\* and no outcomes, no download is asked for it, and the ids after it are still
\* acquired: when the call returns every id has had its descriptor requested.
C8_OneResultPerId ==
    /\ Len(acquire.results) <= Len(acquire.shows)
    /\ Len(acquire.shows) <= Len(acquire.ids)
    /\ acquire.pc = "done"
          => Len(acquire.results) = Len(acquire.ids) /\ Len(acquire.shows) = Len(acquire.ids)
    /\ \A j \in 1..Len(acquire.results) :
          /\ acquire.results[j].datasetId = acquire.ids[j]
          /\ acquire.shows[j] = "failed"
                => /\ acquire.results[j].success = FALSE
                   /\ acquire.results[j].error # "none"
                   /\ acquire.results[j].resourceCount = 0
    /\ (acquire.shows # << >> /\ acquire.shows[Len(acquire.shows)] = "failed")
          => acquire.downloads = {} /\ acquire.processed = << >>

\* C8 witness: a call returns after an id whose descriptor could not be fetched
\* and, after it, an id that was acquired with a download.
C8_FailedThenAcquired ==
    /\ acquire.pc = "done"
    /\ acquire.shows = << "failed", "found" >>
    /\ acquire.results[1].success = FALSE
    /\ acquire.results[2].success
    /\ acquire.results[2].resourceCount > 0
    /\ acquire.downloads # {}

(***************************************************************************)
(* Claims about the governance layer.                                      *)
(***************************************************************************)
\* the description of the validated dataset contains the keyword
DescriptionIncludes(keyword) ==
    \E i \in 1..Len(validation.dataset.description) :
        includes(lowerCase(validation.dataset.description[i]), keyword)

\* the text of the validated dataset (title, description, tags) contains the keyword
TextIncludes(keyword) == textIncludes(datasetText(validation.dataset), keyword)

\* C9 as stated: with blocking of restricted data on, a dataset whose description
\* contains "confidential" is refused and "confidential" is the recorded keyword,
\* whatever the other flags and the rest of the text.
C9_ConfidentialRecorded ==
    (validation.called /\ blockRestrictedData /\ DescriptionIncludes("confidential"))
        => /\ validation.result.allowed = FALSE
           /\ \E i \in 1..Len(validation.result.errors) :
                 validation.result.errors[i].keyword = "confidential"

\* C9 amended: with blocking of restricted data on, a dataset whose description
\* contains "confidential" is refused, whatever the other flags, and the one
\* recorded keyword is the first keyword of the list that the text contains:
\* "internal-use" or "restricted" when the text contains one of them, and
\* "confidential" otherwise.
C9_FirstListedKeywordRecorded ==
    (validation.called /\ blockRestrictedData /\ DescriptionIncludes("confidential"))
        => /\ validation.result.allowed = FALSE
           /\ Len(validation.result.errors) = 1
           /\ validation.result.errors[1].keyword =
                 IF TextIncludes("internal-use") THEN "internal-use"
                 ELSE IF TextIncludes("restricted") THEN "restricted"
                 ELSE "confidential"

\* C9 witness: with the license check and the PII detection off, a dataset whose
\* description contains "Confidential" is refused with "confidential" recorded.
C9_ConfidentialBlocked ==
    /\ validation.called
    /\ blockRestrictedData /\ ~respectLicenses /\ ~piiDetection
    /\ DescriptionIncludes("confidential")
    /\ validation.result.allowed = FALSE
    /\ validation.result.errors[1].keyword = "confidential"

\* C10: with the license check on, a dataset that declares no license and whose
\* text contains no restricted keyword is allowed, with a warnings list that is
\* not empty and contains the no-license warning.
C10_NoLicenseWarned ==
    (/\ validation.called
     /\ respectLicenses
     /\ validation.dataset.license.license_title = ""
     /\ validation.dataset.license.license_id = ""
     /\ \A k \in 1..Len(restrictedKeywords) : ~TextIncludes(restrictedKeywords[k]))
        => /\ validation.result.allowed
           /\ validation.result.warnings # << >>
           /\ \E i \in 1..Len(validation.result.warnings) :
                 validation.result.warnings[i] = NoLicenseWarning

\* C10 witness: with both checks on, a dataset without a license and without a
\* restricted keyword has been validated: allowed, with the no-license warning.
C10_AllowedWithWarning ==
    /\ validation.called
    /\ respectLicenses /\ blockRestrictedData
    /\ validation.dataset.license.license_title = ""
    /\ validation.dataset.license.license_id = ""
    /\ validation.dataset.description = << "health", "data" >>
    /\ validation.dataset.tags = << >>
    /\ validation.result.allowed
    /\ validation.result.warnings = << NoLicenseWarning >>
    /\ validation.dataset.id \in licenseWarnings

\* C12: for every setting of the governance flags, validateResourceDownload
\* refuses a resource whose url has the host localhost or 169.254.169.254, and a
\* resource whose url has a scheme other than http and https.
C12_UnsafeUrlRefused ==
    resourceCheck.called
        => LET parsedURL == parseURL(resourceCheck.resource.url)
           IN  (/\ parsedURL.valid
                /\ \/ parsedURL.hostname \in {"localhost", "169.254.169.254"}
                   \/ parsedURL.protocol \notin {"http:", "https:"})
                  => resourceCheck.result.allowed = FALSE

\* C12 witness: with every governance flag off, a resource whose url names the
\* host localhost has been refused.
C12_LocalhostRefused ==
    /\ resourceCheck.called
    /\ ~respectLicenses /\ ~blockRestrictedData /\ ~enableAuditLog /\ ~piiDetection
    /\ parseURL(resourceCheck.resource.url).hostname = "localhost"
    /\ resourceCheck.result.allowed = FALSE
    /\ resourceCheck.result.errors # << >>

(***************************************************************************)
(* Claims about a run of the actor.                                        *)
(***************************************************************************)
\* the item of the run that validateDatasetAccess was last given
validatedItem == run.datasets[Len(run.verdicts)]

\* a run has validated an item and not yet ended
RunValidated == run.pc \notin {"idle", "thrown"} /\ run.verdicts # << >>

\* the license an item shows is on the open-license list
OpenLicensed(item) ==
    \E i \in 1..Len(openLicenses) :
        includes(lowerCase(Field(item, "license", "")), openLicenses[i])

\* C11: with license checking on, an item of a run whose descriptor declares an
\* open license (formatDatasetMetadata shows it as the item's license) is
\* validated with no license warning and with licenseCheck true.
C11_OpenLicenseNoWarning ==
    (RunValidated /\ respectLicenses /\ OpenLicensed(validatedItem))
        => /\ validation.result.warnings = << >>
           /\ validation.result.compliance.licenseCheck

\* C13: every attachment URL a run has downloaded passes validateURL: no
\* download is issued for a URL the check refuses.
C13_NoUnsafeDownload ==
    run.pc # "idle" => \A url \in run.downloads : validateURL(url).safe

\* C14: an item of a run that validateDatasetAccess refused has no entry in the
\* results and no acquisition was started for it; the verdict kept for the
\* item last validated is the one validateDatasetAccess returned; and a run
\* that reached its end has validated every item, those after a refused one
\* included.
C14_BlockedNeverInResults ==
    run.pc \notin {"idle", "thrown"}
        => /\ \A k \in 1..Len(run.verdicts) :
                ~run.verdicts[k]
                    => /\ \A r \in 1..Len(run.results) : run.results[r].index # k
                       /\ k \notin run.acquisitions
           /\ run.verdicts # << >>
                => run.verdicts[Len(run.verdicts)] = validation.result.allowed
           /\ run.pc = "done" => Len(run.verdicts) = Len(run.datasets)

C14_BlockedThenProcessed ==
    /\ run.pc = "done"
    /\ run.mode = "retrieve" /\ run.includeResources
    /\ run.verdicts = << FALSE, TRUE >>
    /\ validation.result.allowed
    /\ run.acquisitions = {2}
    /\ Len(run.results) = 1 /\ run.results[1].index = 2
    /\ run.results[1].resourceCount > 0

(***************************************************************************)
(* Claims about redaction.                                                 *)
(***************************************************************************)
\* C15: redacting is idempotent: redacting what a redaction returned returns it
\* unchanged, for every text.
C15_RedactIdempotent ==
    redaction.pc = "twice" => redaction.twice = redaction.once

(***************************************************************************)
(* Claims about the backoff delay.                                         *)
(***************************************************************************)
\* baseDelay * 2^attempt of the call
uncapped == backoff.baseDelay * 2 ^ backoff.attempt

C17_DelayAtMostMax ==
    backoff.called => backoff.delay <= backoff.maxDelay

(***************************************************************************)
(* Claims about the attempts of a call.                                    *)
(***************************************************************************)
\* every attempt of the call so far failed with a network error, a 5xx or a 429
AllTransient ==
    \A i \in 1..Len(call.responses) :
        call.responses[i].status = 0 \/ call.responses[i].status >= 500
            \/ call.responses[i].status = 429

\* the retryAttempts the client was configured with (5 when none was given)
ConfiguredRetries == Default(call.configured, defaultRetryAttempts)

\* C18: a catalog call is retried at most the configured retryAttempts times,
\* each retry after a backoff delay and only after a transient failure; when
\* every attempt failed transiently and the retries are exhausted the failure
\* is thrown to the caller; a call that returned made no attempt after the
\* successful one.
C18_TransientRetriedUpToConfigured ==
    (call.pc # "idle" /\ call.kind = "request")
        => /\ call.retryCount <= ConfiguredRetries
           /\ (call.pc = "thrown" /\ AllTransient)
                => Len(call.responses) = ConfiguredRetries + 1
           /\ call.pc = "waiting" => AllTransient
           /\ call.pc = "returned"
                => call.responses[Len(call.responses)] = [status |-> 200, body |-> "ok"]

\* the attempt failed with a 4xx other than 429, or with a 2xx whose body
\* reports success: false or is null
NonTransient(response) ==
    \/ response.status >= 400 /\ response.status < 500 /\ response.status # 429
    \/ response.status = 200 /\ response.body # "ok"

C20_DownloadRetried ==
    (call.pc = "thrown" /\ call.kind = "download" /\ AllTransient)
        => Len(call.responses) = call.retryAttempts + 1

(***************************************************************************)
(* Claims about the attachment cap of a run.                               *)
(***************************************************************************)
\* C21: in retrieve mode with resource inclusion on, a returned item whose
\* descriptor was fetched carries min(the caller's resourceLimit, available
\* attachments) attachment outcomes; here no returned item carries more
\* outcomes than the caller's resourceLimit.
C21_CallerLimitApplied ==
    (run.pc \notin {"idle", "thrown"} /\ run.mode = "retrieve" /\ run.includeResources)
        => \A r \in 1..Len(run.results) :
              run.results[r].success => run.results[r].resourceCount <= input.resourceLimit

(***************************************************************************)
(* Claims about the audit log.                                             *)
(***************************************************************************)
\* the audit log without its last entry
Front(log) == SubSeq(log, 1, Len(log) - 1)

\* what is left of the entries there were once one more is pushed
Kept(log) == IF Len(log) < AuditCapacity THEN log ELSE Tail(log)

\* C22: a validateDatasetAccess call appends exactly one audit entry when
\* auditing is on and leaves the log as it was when auditing is off; the entry
\* names the validated item and holds the verdict the call returned (allowed,
\* warnings, errors and the per-check outcomes).
C22_OneEntryPerValidation ==
    [][\A dataset \in AuditedDatasets :
          ValidateDatasetAccess(dataset)
              => IF enableAuditLog
                 THEN /\ auditLog' # << >>
                      /\ Front(auditLog') = Kept(auditLog)
                      /\ LET entry == auditLog'[Len(auditLog')]
                         IN  /\ entry.action = "ACCESS_ATTEMPT"
                             /\ entry.datasetId = dataset.id
                             /\ entry.allowed = validation'.result.allowed
                             /\ entry.warnings = validation'.result.warnings
                             /\ entry.errors = validation'.result.errors
                             /\ entry.compliance = validation'.result.compliance
                 ELSE auditLog' = auditLog]_vars

C22_RefusalLogged ==
    /\ enableAuditLog /\ blockRestrictedData /\ respectLicenses
    /\ validation.called /\ ~validation.result.allowed
    /\ validation.result.warnings # << >>
    /\ Len(auditLog) = AuditCapacity
    /\ auditLog[Len(auditLog)] = logEntry(validation.dataset, validation.result)
    /\ auditLog[Len(auditLog)].allowed = FALSE

\* C23: the audit log never holds more than its capacity; a step either leaves
\* it as it was, or appends one entry after the entries there were (less the
\* oldest one when the log was full), or is reset, which empties it.
C23_AuditLogBounded ==
    [][/\ Len(auditLog') <= AuditCapacity
       /\ \/ auditLog' = auditLog
          \/ auditLog' # << >> /\ Front(auditLog') = Kept(auditLog)
          \/ auditLog' = << >> /\ blockedDatasets' = {} /\ licenseWarnings' = {}]_vars

\* the log is full of entries that are not refusals, and a refusal was logged
\* before them: it was dropped on overflow
C23_OldestDropped ==
    /\ enableAuditLog /\ blockedDatasets # {}
    /\ Len(auditLog) = AuditCapacity
    /\ \A i \in 1..Len(auditLog) : "allowed" \in DOMAIN auditLog[i] => auditLog[i].allowed
    /\ "activity" \in DOMAIN auditLog[1]

(***************************************************************************)
(* Claims about the verdict.                                               *)
(***************************************************************************)
\* the two items have the same title, description and tags
SameText(a, b) ==
    a.title = b.title /\ a.description = b.description /\ a.tags = b.tags

\* C24: the allowed flag of the verdict is that of the restriction check alone:
\* every item with the same text gets the same allowed value, whatever its
\* license and whatever the license flag (the PII flag is any value in the
\* state); an item with PII in its text is judged by its keywords like any
\* other; and errors are present exactly when the item is refused.
C24_AllowedByRestrictionOnly ==
    validation.called
        => /\ \A other \in GovernedDatasets, licenses \in BOOLEAN :
                SameText(other, validation.dataset)
                    => verdict(other, licenses, blockRestrictedData).allowed
                           = validation.result.allowed
           /\ validation.result.allowed
                  = ~(blockRestrictedData /\ ~checkRestrictions(validation.dataset).allowed)
           /\ validation.result.allowed = (validation.result.errors = << >>)

C24_WarnedPIIItemAllowed ==
    /\ validation.called
    /\ respectLicenses /\ blockRestrictedData /\ piiDetection
    /\ validation.dataset.description = << "contact", "a@b.c" >>
    /\ validation.dataset.license.license_id = "proprietary"
    /\ validation.result.warnings # << >>
    /\ validation.result.allowed

\* C25: with both flags on, an item that matches a restriction keyword and has
\* a missing or non-open license is refused with the blocking error and its
\* verdict still holds the license warning.
C25_BlockedKeepsLicenseWarning ==
    (/\ validation.called /\ respectLicenses /\ blockRestrictedData
     /\ ~checkRestrictions(validation.dataset).allowed
     /\ checkLicense(validation.dataset).restrictive)
        => /\ validation.result.allowed = FALSE
           /\ Len(validation.result.errors) = 1
           /\ validation.result.warnings = << checkLicense(validation.dataset).warning >>
           /\ validation.result.compliance.licenseCheck = FALSE
           /\ validation.result.compliance.restrictionCheck = FALSE

C25_BlockedAndWarned ==
    /\ validation.called /\ respectLicenses /\ blockRestrictedData
    /\ validation.dataset.description = << "Confidential", "records" >>
    /\ validation.dataset.license = [license_title |-> "", license_id |-> ""]
    /\ validation.result.allowed = FALSE
    /\ validation.result.errors # << >>
    /\ validation.result.warnings = << NoLicenseWarning >>

(***************************************************************************)
(* Claims about the relevance filter.                                      *)
(***************************************************************************)
\* C26: no item that carries a score below the threshold, 0 included, is among
\* the items a search has accumulated.
C26_LowScoreDropped ==
    \A i \in 1..Len(search.results) :
        search.results[i].score # NoScore => search.results[i].score >= relevanceThreshold

\* C27: an item without a score that a search accumulated (the filter kept it)
\* is in the returned results, with relevance 1.0 (10 tenths).
C27_UnscoredReported ==
    (search.pc = "done" /\ ~search.failed)
        => \A i \in 1..Min(Len(search.results), search.maxResults) :
              search.results[i].score = NoScore
                  => /\ Len(search.ret.results) >= i
                     /\ search.ret.results[i].id = search.results[i].id
                     /\ search.ret.results[i].relevanceScore = 10

\* C28: a remote call (catalog request or attachment download) begins only as the body
\* of a job the client's limiter has admitted: a job passes to EXECUTING from RUNNING
\* only, never from the queue or from outside the limiter, and the request counter moves
\* only with such a passage
C28_CallsOnlyInsideAdmittedJobs ==
    [][
        /\ \A j \in JobIds :
             (jobStatus'[j] = "EXECUTING" /\ jobStatus[j] # "EXECUTING")
                 => (jobStatus[j] = "RUNNING" /\ \A k \in 1..Len(queue) : queue[k] # j)
        /\ (stats'.totalRequests # stats.totalRequests)
             => (\E j \in JobIds : jobStatus[j] = "RUNNING" /\ jobStatus'[j] = "EXECUTING")
    ]_vars

\* C28 witness: a catalog request and a download are in flight together, both admitted,
\* while a third job still waits in the queue
C28_RequestAndDownloadInFlight ==
    /\ \E i, j \in JobIds :
          /\ jobStatus[i] = "EXECUTING" /\ jobKind[i] = "request"
          /\ jobStatus[j] = "EXECUTING" /\ jobKind[j] = "download"
    /\ queue # << >>
    /\ stats.totalRequests = 2

\* does the set of headers hold one of this name
hasHeader(headers, name) == \E h \in headers : h[1] = name

\* C29: a catalog request leaves with the bearer Authorization header and no X-API-Key
\* header when a bearer token is configured (with or without an API key), with the
\* X-API-Key header and no Authorization header when only an API key is configured,
\* and with neither when none is configured
C29_AuthHeadersExclusive ==
    (call.pc # "idle" /\ call.kind = "request") =>
        LET token == input.authentication.oauthToken
            key == input.authentication.apiKey
            bearer == token \notin {Undefined, ""}
            keyed == key \notin {Undefined, ""}
        IN  /\ bearer =>
                /\ << "Authorization", << "Bearer", token >> >> \in call.headers
                /\ ~hasHeader(call.headers, "X-API-Key")
            /\ (~bearer /\ keyed) =>
                /\ << "X-API-Key", key >> \in call.headers
                /\ ~hasHeader(call.headers, "Authorization")
            /\ (~bearer /\ ~keyed) =>
                /\ ~hasHeader(call.headers, "X-API-Key")
                /\ ~hasHeader(call.headers, "Authorization")
            /\ Cardinality({h \in call.headers : h[1] = "Authorization"}) <= 1

\* C29 witness: both credentials are configured and a catalog request has left with the
\* bearer header alone
C29_BothConfiguredBearerSent ==
    /\ input.authentication = [apiKey |-> "secret", oauthToken |-> "secret"]
    /\ call.pc = "attempting" /\ call.kind = "request"
    /\ hasHeader(call.headers, "Authorization")
    /\ ~hasHeader(call.headers, "X-API-Key")

\* the results of the run for the dataset at a position of its list
resultsOf(i) == {r \in 1..Len(run.results) : run.results[r].index = i}

\* C30: a retrieve run by ids never throws; it has one record per id, and when it is
\* done every id whose fetch failed has exactly one result, which carries an error
\* (unless the second fetch, by acquireDataset, found the item), and every other id
\* has exactly one result when its verdict is allowed
C30_PartialSuccessReported ==
    (run.pc # "idle" /\ run.mode = "retrieve" /\ run.ids # << >>) =>
        /\ run.pc # "thrown"
        /\ Len(run.datasets) = Len(run.ids)
        /\ \A i \in 1..Len(run.ids) : run.datasets[i].id = run.ids[i]
        /\ run.pc = "done" =>
              \A i \in 1..Len(run.ids) :
                  IF "error" \in DOMAIN run.datasets[i]
                  THEN /\ Cardinality(resultsOf(i)) = 1
                       /\ \A r \in resultsOf(i) :
                             /\ run.results[r].id = run.ids[i]
                             /\ \/ run.results[r].error
                                \/ run.includeResources /\ run.results[r].success
                  ELSE run.verdicts[i] =>
                       /\ Cardinality(resultsOf(i)) = 1
                       /\ \A r \in resultsOf(i) : run.results[r].id = run.ids[i]

\* C30 witness: a finished retrieve run by two ids, the first not fetchable and the
\* second fetched and allowed, with the error item and the result in one report
C30_FailedAndFetchedReported ==
    /\ run.pc = "done" /\ run.mode = "retrieve" /\ Len(run.ids) = 2
    /\ "error" \in DOMAIN run.datasets[1]
    /\ "error" \notin DOMAIN run.datasets[2]
    /\ Len(run.results) = 2
    /\ run.results[1].index = 1 /\ run.results[1].error
    /\ run.results[2].index = 2 /\ run.results[2].success /\ ~run.results[2].error

\* the run that has just ended
RunEnded == run.pc = "idle" /\ "reports" \in DOMAIN run

\* C31: a run that fails as a whole (the connection test fails, or the mode is not one
\* of the switch) throws with no item processed, and when it has ended it has thrown
\* to its caller and has recorded one report, with success = false, and no report with
\* success = true
C31_WholeRunFailureIsHard ==
    /\ (run.pc = "thrown" /\ run.cause \in {"Failed to connect", "Unknown mode"}) =>
           /\ run.datasets = << >> /\ run.results = << >>
           /\ ~validation.called
    /\ (RunEnded /\ run.cause \in {"Failed to connect", "Unknown mode"}) =>
           /\ run.threw
           /\ Len(run.reports) = 1
           /\ run.reports[1].success = FALSE
           /\ run.reports[1].error = run.cause
           /\ \A k \in 1..Len(run.reports) :
                 "success" \in DOMAIN run.reports[k] => ~run.reports[k].success

\* C31 witness: a run ended by an unknown mode, with its failure report
C31_UnknownModeReported ==
    /\ RunEnded /\ run.threw /\ run.cause = "Unknown mode"
    /\ run.reports = << [success |-> FALSE, error |-> "Unknown mode"] >>

\* the rows asked by the first k page requests of the search call
RECURSIVE rowsRequested(_)
rowsRequested(k) == IF k = 0 THEN 0 ELSE rowsRequested(k - 1) + search.requests[k].rows

\* C32: within one search call each page asks for at least 1 and at most batchSize
\* rows, the offset of a page is the sum of the rows asked by the pages before it, and
\* so the offsets increase strictly; one page is requested per turn of the loop
C32_PagesInOffsetOrder ==
    /\ Len(search.requests) = search.pages
    /\ \A k \in 1..Len(search.requests) :
          /\ search.requests[k].rows \in 1..batchSize
          /\ search.requests[k].start = rowsRequested(k - 1)
          /\ k > 1 => search.requests[k].start > search.requests[k - 1].start

\* C32 witness: a call with three page requests, the first of a full batch
C32_ThreePages ==
    /\ Len(search.requests) = 3
    /\ search.requests[1].rows = batchSize /\ batchSize > 1
    /\ search.requests[3].start = search.requests[1].rows + search.requests[2].rows

\* C33: the budget (reservoir) is between 0 and requestsPerHour before and after every
\* step; a step that admits a call starts with a budget above 0; the budget goes up
\* only at the refill, which sets it to requestsPerHour whatever was left
C33_BudgetWithinRate ==
    [][
        /\ reservoir \in 0..requestsPerHour
        /\ reservoir' \in 0..requestsPerHour
        /\ (\E j \in JobIds : jobStatus[j] = "QUEUED" /\ jobStatus'[j] # "QUEUED") => reservoir > 0
        /\ (reservoir' > reservoir) => (now = RefreshTicks /\ now' = 0)
        /\ (now = RefreshTicks /\ now' = 0) => (reservoir' = requestsPerHour)
    ]_vars

\* C33 witness: a window has just begun after one in which part of the budget was left
\* unused (one call of two was admitted): the budget is requestsPerHour, not more
C33_RefilledAfterPartialUse ==
    /\ requestsPerHour = MaxRate /\ MaxRate > 1
    /\ now = 0 /\ admittedInWindow = 0
    /\ Cardinality({j \in JobIds : jobStatus[j] \notin {"NONE", "QUEUED"}}) = 1
    /\ reservoir = requestsPerHour

\* C34: every admission takes exactly one unit of budget, and no other step but the
\* refill changes the budget: not an attempt, not a retry, not the end of the call,
\* be it a success or a failure. So inside a window the budget is requestsPerHour
\* less the calls admitted in the window
C34_OneUnitPerAdmittedCall ==
    [][
        /\ (\E j \in JobIds : jobStatus[j] = "QUEUED" /\ jobStatus'[j] = "RUNNING")
              => (reservoir' = reservoir - 1)
        /\ ((\A j \in JobIds : jobStatus[j] = "QUEUED" => jobStatus'[j] = "QUEUED") /\ now' >= now)
              => (reservoir' = reservoir)
        /\ reservoir' = requestsPerHour' - admittedInWindow'
    ]_vars

\* C34 witness: the only call admitted in the window has been retried MaxRetries times
\* inside its job and has failed; the budget is one unit short, not more, not less
C34_FailedAfterRetriesStillCharged ==
    /\ admittedInWindow = 1
    /\ reservoir = requestsPerHour - 1
    /\ \E j \in JobIds : jobStatus[j] = "EXECUTING" /\ jobKind[j] = "request"
    /\ call.pc = "thrown" /\ call.retryCount = MaxRetries /\ MaxRetries > 1
    /\ Len(call.responses) = MaxRetries + 1

\* C35: calls are admitted and started in the order of their submission (jobs are
\* numbered in that order): when a call is admitted no call submitted before it is
\* still queued, when a call starts no call submitted before it is still waiting
\* for its admission or its start, and the queue holds the waiting calls in order
C35_FifoAdmission ==
    [][
        /\ \A j \in JobIds :
              (jobStatus[j] = "QUEUED" /\ jobStatus'[j] = "RUNNING")
                  => (\A i \in JobIds : i < j => jobStatus[i] \notin {"NONE", "QUEUED"})
        /\ \A j \in JobIds :
              (jobStatus[j] = "RUNNING" /\ jobStatus'[j] = "EXECUTING")
                  => (\A i \in JobIds : i < j => jobStatus[i] \in {"EXECUTING", "DONE"})
        /\ \A k \in 1..(Len(queue') - 1) : queue'[k] < queue'[k + 1]
    ]_vars

\* C35 witness: two calls wait in the queue behind a running one, and the budget
\* and the time allow the next admission
C35_TwoQueuedBehindOne ==
    /\ Len(queue) = 2
    /\ \E j \in JobIds : jobStatus[j] = "EXECUTING"
    /\ reservoir > 0

\* the position in the response of the entry at position k of a processed field
positionOf(field, k) ==
    CHOOSE p \in 1..Len(facets.raw[field].items) :
        facets.raw[field].items[p].name = facets.processed[processedKey(field)][k].name

\* C36: each field of the processed facets has at most facetLimit entries; they are
\* entries of the response, in descending order of count, entries of equal count in
\* their order in the response; no entry left out has a higher count than a kept
\* one, nor the same count and an earlier position
C36_TopFacetsByCount ==
    facets.called =>
        /\ DOMAIN facets.processed = {processedKey(field) : field \in DOMAIN facets.raw}
        /\ \A field \in DOMAIN facets.raw :
              LET out == facets.processed[processedKey(field)]
              IN  IF "items" \notin DOMAIN facets.raw[field] THEN out = << >>
                  ELSE LET items == facets.raw[field].items
                       IN  /\ Len(out) = Min(Len(items), facetLimit)
                           /\ \A k \in 1..Len(out) :
                                 /\ \E p \in 1..Len(items) :
                                       out[k] = [name |-> items[p].name, count |-> items[p].count]
                                 /\ k > 1 =>
                                       \/ out[k - 1].count > out[k].count
                                       \/ /\ out[k - 1].count = out[k].count
                                          /\ positionOf(field, k - 1) < positionOf(field, k)
                           /\ \A p \in 1..Len(items) :
                                 (\A k \in 1..Len(out) : out[k].name # items[p].name) =>
                                     \A k \in 1..Len(out) :
                                         \/ out[k].count > items[p].count
                                         \/ /\ out[k].count = items[p].count
                                            /\ positionOf(field, k) < p

\* C36 witness: a field with more items than the limit, in ascending order of count
\* with a tie, is cut to its top entries
C36_CutToTop ==
    /\ facets.called /\ "organization" \in DOMAIN facets.raw
    /\ "items" \in DOMAIN facets.raw["organization"]
    /\ LET items == facets.raw["organization"].items
       IN  /\ Len(items) > facetLimit
           /\ items[1].count < items[2].count
           /\ items[2].count = items[Len(items)].count
           /\ facets.processed["organizations"][1].name = items[2].name

\* C37: the completed calls counted as successful and as failed never outnumber the
\* calls counted in totalRequests, and when no call is executing the two counts add
\* up to totalRequests: each call is counted once, and once more when it completes
C37_CountersConsistent ==
    /\ stats.successfulRequests + stats.failedRequests <= stats.totalRequests
    /\ (\A j \in JobIds : jobStatus[j] # "EXECUTING")
          => stats.successfulRequests + stats.failedRequests = stats.totalRequests

C39_SlotsReleased ==
    \A j \in JobIds : (jobStatus[j] \in {"QUEUED", "RUNNING", "EXECUTING"}) ~> (jobStatus[j] = "DONE")

\* C39 witness: with one slot, a call has failed and is done, the call queued behind
\* it holds the slot now, and no other call has completed
C39_SlotReusedAfterFailure ==
    /\ concurrentRequests = 1
    /\ jobStatus[1] = "DONE" /\ jobStatus[2] \in {"RUNNING", "EXECUTING"}
    /\ stats.failedRequests = 1 /\ stats.successfulRequests = 0
    /\ Cardinality(RunningJobs) = 1

====
